---- MODULE Spec2Model ----
(***************************************************************************)
(* Buyer-lead intake application: the in-memory rate limiter               *)
(* (src/lib/rate-limit.ts), the rate-limited API routes and the CSV import *)
(* pipeline (src/app/api/buyers/import/route.ts).                          *)
(***************************************************************************)
EXTENDS Integers, Sequences, FiniteSets, TLC

VARIABLES
    now,             \* Date.now(), in ms
    rateLimitStore,  \* the module-level Map: key -> [count, resetTime]
    last,            \* what the previous step did: the limiter operation and what it returned
    admitted,        \* key -> units admitted since the key was last absent
    callsPending,    \* burst scenario: number of calls fired and not yet started
    callFrames,      \* burst scenario: bag of checkLimit frames between the reads and the decision
    callResults,     \* burst scenario: bag of the RateLimitResults returned so far
    buyers,          \* table Buyer: id -> row
    history,         \* table BuyerHistory, in insertion order
    nextId,          \* the next buyer id the database hands out
    imp,             \* the import request: its position, its locals and its response
    sent,            \* <<endpoint, identifier>> -> requests received in the running hour
    exchange         \* the last request to a buyers endpoint and its response

limiterVars == <<now, rateLimitStore, last, admitted>>
limiterVarsButNow == <<rateLimitStore, last, admitted>>
burstVars == <<callsPending, callFrames, callResults>>
storageVars == <<buyers, history, nextId>>
apiVars == <<sent, exchange>>
vars == <<now, rateLimitStore, last, admitted, callsPending, callFrames, callResults,
          buyers, history, nextId, imp, sent, exchange>>

Max(a, b) == IF a >= b THEN a ELSE b

(***************************************************************************)
(* Configuration                                                           *)
(***************************************************************************)
RATE_LIMITS ==
    [ BUYER_CREATE |-> [ windowMs |-> 60 * 60 * 1000, maxRequests |-> 10,
                         message |-> "Too many buyer creation requests. Please try again later." ],
      BUYER_UPDATE |-> [ windowMs |-> 60 * 60 * 1000, maxRequests |-> 50,
                         message |-> "Too many buyer update requests. Please try again later." ] ]

\* the limiter the unit tests construct in beforeEach
TEST_LIMIT ==
    [ windowMs |-> 1000, maxRequests |-> 3, message |-> "Test rate limit exceeded" ]

\* rateLimiters plus the test's instance; each holds only its config
Config(limiter) ==
    CASE limiter = "buyerCreate" -> RATE_LIMITS.BUYER_CREATE
      [] limiter = "buyerUpdate" -> RATE_LIMITS.BUYER_UPDATE
      [] limiter = "testLimiter" -> TEST_LIMIT

NoMessage == "undefined"

NoResponse == [status |-> 0]
\* no import request has arrived
ImpIdle ==
    [ pc |-> "idle", file |-> <<>>, totalRows |-> 0, validData |-> <<>>, index |-> 0,
      phase |-> "none", buyerId |-> 0, writes |-> <<>>, insertedCount |-> 0, attempts |-> 0,
      firstId |-> 0, response |-> NoResponse ]

NoExchange ==
    [ endpoint |-> "none", identifier |-> "none", ordinal |-> 0, limit |-> [allowed |-> TRUE],
      invoked |-> 0, writes |-> 0, response |-> NoResponse ]

(***************************************************************************)
(* RateLimiter.checkLimit, line by line                                    *)
(***************************************************************************)
WindowStartAtCall(t, cfg) == t
\* Math.floor(now / windowMs) * windowMs
WindowStart(t, cfg) == (t \div cfg.windowMs) * cfg.windowMs

\* `${identifier}:${windowStart}`: the last ':' of the string always precedes the
\* digits of windowStart, so the string determines the pair and the pair the string.
KeyOfBucketOnly(identifier, windowStart) == <<"all", windowStart>>
KeyOf(identifier, windowStart) == <<identifier, windowStart>>

\* current ? current.count : 0
CurrentCount(store, key) == IF key \in DOMAIN store THEN store[key].count ELSE 0

ExceedsOffByOne(newCount, cfg) == newCount > cfg.maxRequests + 1
\* if (newCount > this.config.maxRequests)
Exceeds(newCount, cfg) == newCount > cfg.maxRequests

DeniedResultFromNow(t, currentCount, cfg) ==
    [ allowed |-> FALSE,
      remaining |-> Max(0, cfg.maxRequests - currentCount),
      resetTime |-> t + cfg.windowMs,
      message |-> cfg.message ]
\* the object returned inside the if (lines 78-86)
DeniedResult(t, currentCount, cfg) ==
    [ allowed |-> FALSE,
      remaining |-> Max(0, cfg.maxRequests - currentCount),
      resetTime |-> WindowStart(t, cfg) + cfg.windowMs,
      message |-> cfg.message ]

\* the object returned after the update (lines 95-102)
AllowedResult(t, currentCount, requestCount, cfg) ==
    [ allowed |-> TRUE,
      remaining |-> cfg.maxRequests - (currentCount + requestCount),
      resetTime |-> WindowStart(t, cfg) + cfg.windowMs,
      message |-> NoMessage ]

\* rateLimitStore.set(key, {count, resetTime})
MapSet(store, key, value) ==
    [k \in DOMAIN store \cup {key} |-> IF k = key THEN value ELSE store[k]]

MapDeleteNothing(store, key) == store
\* rateLimitStore.delete(key)
MapDelete(store, key) == [k \in DOMAIN store \ {key} |-> store[k]]

StoreAfterCheckAlwaysCounts(store, t, identifier, currentCount, requestCount, cfg) ==
    MapSet(store, KeyOf(identifier, WindowStart(t, cfg)),
           [ count |-> currentCount + requestCount,
             resetTime |-> WindowStart(t, cfg) + cfg.windowMs ])
\* the store as checkLimit leaves it: untouched on the early return, set otherwise
StoreAfterCheck(store, t, identifier, currentCount, requestCount, cfg) ==
    IF Exceeds(currentCount + requestCount, cfg)
    THEN store
    ELSE MapSet(store, KeyOf(identifier, WindowStart(t, cfg)),
                [ count |-> currentCount + requestCount,
                  resetTime |-> WindowStart(t, cfg) + cfg.windowMs ])

\* what checkLimit returns, given the count it read
CheckResult(t, currentCount, requestCount, cfg) ==
    IF Exceeds(currentCount + requestCount, cfg)
    THEN DeniedResult(t, currentCount, cfg)
    ELSE AllowedResult(t, currentCount, requestCount, cfg)

StatusResultOffByOne(store, t, identifier, cfg) ==
    LET currentCount == CurrentCount(store, KeyOf(identifier, WindowStart(t, cfg)))
    IN  [ allowed |-> currentCount <= cfg.maxRequests,
          remaining |-> Max(0, cfg.maxRequests - currentCount - 1),
          resetTime |-> WindowStart(t, cfg) + cfg.windowMs,
          message |-> NoMessage ]
\* RateLimiter.getStatus
StatusResult(store, t, identifier, cfg) ==
    LET currentCount == CurrentCount(store, KeyOf(identifier, WindowStart(t, cfg)))
    IN  [ allowed |-> currentCount < cfg.maxRequests,
          remaining |-> Max(0, cfg.maxRequests - currentCount),
          resetTime |-> WindowStart(t, cfg) + cfg.windowMs,
          message |-> NoMessage ]

SweepEntryExpiredAtReset(t, entry) == t + TEST_LIMIT.windowMs > entry.resetTime
\* if (now > value.resetTime) in the setInterval callback
SweepEntryExpired(t, entry) == t > entry.resetTime

\* the store after one run of the setInterval callback
StoreAfterSweep(store, t) ==
    LET keep == {k \in DOMAIN store : ~SweepEntryExpired(t, store[k])}
    IN  [k \in keep |-> store[k]]

ThreadFreeRacy == TRUE
\* checkLimit, getStatus, reset and the sweep callback are synchronous: none of them
\* starts while a frame of another one is still open
ThreadFree == DOMAIN callFrames = {}

(***************************************************************************)
(* Scenario 1: one RateLimiter driven as in tests/rate-limit.test.ts       *)
(***************************************************************************)
MaxRequestCount == 2

Identifiers == {"user1", "user2"}
RequestCounts == 1..MaxRequestCount
\* sample clock readings: two in bucket 1000, two in bucket 2000 (one on its first ms), one in 3000
LimiterInstants == {1700, 1999, 2000, 2600, 3001}

NoResult == [allowed |-> FALSE, remaining |-> -1, resetTime |-> -1, message |-> NoMessage]
NoOp ==
    [ op |-> "none", limiter |-> "none", identifier |-> "none", requestCount |-> 0, at |-> 0,
      countBefore |-> 0, admittedBefore |-> 0, result |-> NoResult ]

AdmittedUnits(key) == IF key \in DOMAIN admitted THEN admitted[key] ELSE 0

InitLimiter ==
    /\ now = 1700
    /\ rateLimitStore = <<>>
    /\ last = NoOp
    /\ admitted = <<>>
    /\ callsPending = 0
    /\ callFrames = <<>>
    /\ callResults = <<>>
    /\ buyers = <<>>
    /\ history = <<>>
    /\ nextId = 1
    /\ imp = ImpIdle
    /\ sent = <<>>
    /\ exchange = NoExchange

\* rateLimiter.checkLimit(identifier, requestCount), lines 66-103
CheckLimit(limiter, identifier, requestCount) ==
    LET cfg == Config(limiter)
        key == KeyOf(identifier, WindowStart(now, cfg))
        currentCount == CurrentCount(rateLimitStore, key)
        result == CheckResult(now, currentCount, requestCount, cfg)
    IN  /\ ThreadFree
        /\ rateLimitStore' =
               StoreAfterCheck(rateLimitStore, now, identifier, currentCount, requestCount, cfg)
        /\ last' = [ op |-> "checkLimit", limiter |-> limiter, identifier |-> identifier,
                     requestCount |-> requestCount, at |-> now, countBefore |-> currentCount,
                     admittedBefore |-> AdmittedUnits(key), result |-> result ]
        /\ admitted' = IF result.allowed
                       THEN MapSet(admitted, key, AdmittedUnits(key) + requestCount)
                       ELSE admitted
        /\ UNCHANGED <<now, burstVars, storageVars, imp, apiVars>>

\* rateLimiter.getStatus(identifier), lines 110-125
GetStatus(limiter, identifier) ==
    LET cfg == Config(limiter)
        key == KeyOf(identifier, WindowStart(now, cfg))
    IN  /\ ThreadFree
        /\ last' = [ op |-> "getStatus", limiter |-> limiter, identifier |-> identifier,
                     requestCount |-> 0, at |-> now,
                     countBefore |-> CurrentCount(rateLimitStore, key),
                     admittedBefore |-> AdmittedUnits(key),
                     result |-> StatusResult(rateLimitStore, now, identifier, cfg) ]
        /\ UNCHANGED <<now, rateLimitStore, admitted, burstVars, storageVars, imp, apiVars>>

\* rateLimiter.reset(identifier), lines 131-137
Reset(limiter, identifier) ==
    LET cfg == Config(limiter)
        key == KeyOf(identifier, WindowStart(now, cfg))
    IN  /\ ThreadFree
        /\ rateLimitStore' = MapDelete(rateLimitStore, key)
        /\ last' = [ op |-> "reset", limiter |-> limiter, identifier |-> identifier,
                     requestCount |-> 0, at |-> now,
                     countBefore |-> CurrentCount(rateLimitStore, key),
                     admittedBefore |-> AdmittedUnits(key), result |-> NoResult ]
        /\ admitted' = MapDelete(admitted, key)
        /\ UNCHANGED <<now, burstVars, storageVars, imp, apiVars>>

Did(op) == [NoOp EXCEPT !.op = op]

\* one run of the setInterval callback, lines 41-48
Sweep ==
    /\ ThreadFree
    /\ rateLimitStore' = StoreAfterSweep(rateLimitStore, now)
    /\ last' = Did("sweep")
    /\ UNCHANGED <<now, admitted, burstVars, storageVars, imp, apiVars>>

\* the clock moves on to a later sample reading; the units admitted in buckets of the
\* test limiter that are over are no longer tracked
TickLimiter ==
    /\ \E t \in LimiterInstants : t > now /\ now' = t
    /\ last' = Did("tick")
    /\ admitted' = LET keep == {k \in DOMAIN admitted : k[2] >= WindowStart(now', TEST_LIMIT)}
                   IN  [k \in keep |-> admitted[k]]
    /\ UNCHANGED <<rateLimitStore, burstVars, storageVars, imp, apiVars>>

NextLimiter ==
    \/ \E id \in Identifiers, n \in RequestCounts : CheckLimit("testLimiter", id, n)
    \/ \E id \in Identifiers : GetStatus("testLimiter", id)
    \/ \E id \in Identifiers : Reset("testLimiter", id)
    \/ Sweep
    \/ TickLimiter

SpecLimiter == InitLimiter /\ [][NextLimiter]_vars

\* the same limiter serving one identifier over several buckets, with the sweep
\* callback running at any point between its calls
WindowIdentifier == "user1"

NextWindow ==
    \/ \E n \in RequestCounts : CheckLimit("testLimiter", WindowIdentifier, n)
    \/ GetStatus("testLimiter", WindowIdentifier)
    \/ Sweep
    \/ TickLimiter

SpecWindow == InitLimiter /\ [][NextWindow]_vars

\* rateLimiters.buyerCreate and rateLimiters.buyerUpdate (lines 161-164) called for one
\* identifier within one hour; both instances read and write the one rateLimitStore
ProductionLimiters == {"buyerCreate", "buyerUpdate"}

NextShared ==
    \/ \E limiter \in ProductionLimiters : CheckLimit(limiter, WindowIdentifier, 1)
    \/ \E limiter \in ProductionLimiters : GetStatus(limiter, WindowIdentifier)

SpecShared == InitLimiter /\ [][NextShared]_vars

(***************************************************************************)
(* Scenario 2: a burst of checkLimit(id) calls fired together, as by       *)
(* Promise.all over requests of one identity. Each call is the two halves  *)
(* of the synchronous body: the reads (lines 67-74) and the decision with  *)
(* its write (lines 76-102).                                               *)
(***************************************************************************)
NumCalls == 10

BurstIdentifier == "user1"
BurstInstants == {1700, 1999, 2000}

\* bags as functions from element to a positive count
BagAdd(bag, e) ==
    [x \in DOMAIN bag \cup {e} |-> IF x \in DOMAIN bag THEN bag[x] + (IF x = e THEN 1 ELSE 0) ELSE 1]
BagRemove(bag, e) ==
    LET keep == {x \in DOMAIN bag : x # e \/ bag[x] > 1}
    IN  [x \in keep |-> IF x = e THEN bag[x] - 1 ELSE bag[x]]
RECURSIVE BagCount(_, _)
BagCount(bag, S) ==
    IF S = {} THEN 0
    ELSE LET e == CHOOSE x \in S : TRUE IN bag[e] + BagCount(bag, S \ {e})

InitBurst ==
    /\ now = 1700
    /\ rateLimitStore = <<>>
    /\ last = NoOp
    /\ admitted = <<>>
    /\ callsPending = NumCalls
    /\ callFrames = <<>>
    /\ callResults = <<>>
    /\ buyers = <<>>
    /\ history = <<>>
    /\ nextId = 1
    /\ imp = ImpIdle
    /\ sent = <<>>
    /\ exchange = NoExchange

\* lines 67-74: const now = Date.now(); ... const currentCount = current ? current.count : 0
CallEnter ==
    LET cfg == Config("testLimiter")
        key == KeyOf(BurstIdentifier, WindowStart(now, cfg))
    IN  /\ ThreadFree
        /\ callsPending > 0
        /\ callsPending' = callsPending - 1
        /\ callFrames' = BagAdd(callFrames,
                                [now |-> now, currentCount |-> CurrentCount(rateLimitStore, key)])
        /\ UNCHANGED <<now, rateLimitStore, last, admitted, callResults, storageVars, imp, apiVars>>

\* lines 76-102: the comparison, the early return or the set, and the return
CallReturn ==
    \E frame \in DOMAIN callFrames :
        LET cfg == Config("testLimiter") IN
        /\ rateLimitStore' = StoreAfterCheck(rateLimitStore, frame.now, BurstIdentifier,
                                             frame.currentCount, 1, cfg)
        /\ callResults' = BagAdd(callResults, CheckResult(frame.now, frame.currentCount, 1, cfg))
        /\ callFrames' = BagRemove(callFrames, frame)
        /\ UNCHANGED <<now, last, admitted, callsPending, storageVars, imp, apiVars>>

\* Date.now() is read once per call, so the clock may move at any point of a call
TickBurst ==
    /\ \E t \in BurstInstants : t > now /\ now' = t
    /\ UNCHANGED <<rateLimitStore, last, admitted, burstVars, storageVars, imp, apiVars>>

NextBurst ==
    \/ CallEnter
    \/ CallReturn
    \/ Sweep
    \/ TickBurst

SpecBurst == InitBurst /\ [][NextBurst]_vars

(***************************************************************************)
(* JavaScript values and strings. A string is a sequence of symbols: the   *)
(* characters the CSV code tests for (comma, double quote, newline, space) *)
(* and atoms, maximal runs of other characters written as one TLA+ string. *)
(***************************************************************************)
Null == [t |-> "null"]
Undefined == [t |-> "undefined"]
NaN == [t |-> "nan"]
Str(s) == [t |-> "str", s |-> s]
Num(n) == [t |-> "num", n |-> n]
Arr(a) == [t |-> "arr", a |-> a]

Comma == ","
Quote == "\""
Newline == "\n"
Space == " "
Specials == {Comma, Quote, Newline, Space}

\* the atoms of the sample inputs that consist of decimal digits only
DigitAtoms == {"9876543210", "12345", "5000000", "6000000"}
\* the atoms of the sample inputs that zod's email pattern accepts
EmailAtoms == {"a@b.co"}

RECURSIVE CharLen(_)
\* String.prototype.length
CharLen(s) == IF s = <<>> THEN 0 ELSE Len(Head(s)) + CharLen(Tail(s))

\* the ?? operator
Coalesce(v, d) == IF v = Null \/ v = Undefined THEN d ELSE v

(***************************************************************************)
(* lib/validators/buyer: buyerSchema                                       *)
(***************************************************************************)
City == {"Chandigarh", "Mohali", "Zirakpur", "Panchkula", "Other"}
PropertyType == {"Apartment", "Villa", "Plot", "Office", "Retail"}
BHK == {"ONE", "TWO", "THREE", "FOUR", "STUDIO"}
Purpose == {"Buy", "Rent"}
Timeline == {"ZERO_TO_3M", "THREE_TO_6M", "GT_6M", "EXPLORING"}
Source == {"Website", "Referral", "WALK_IN", "Call", "Other"}
Status == {"New", "Qualified", "Contacted", "Visited", "Negotiation", "Converted", "Dropped"}

Issue(path, code, aborts) == [path |-> path, code |-> code, aborts |-> aborts]

\* z.string().min(lo).max(hi)
StringIssues(path, v, lo, hi) ==
    IF v.t # "str" THEN <<Issue(path, "invalid_type", TRUE)>>
    ELSE (IF CharLen(v.s) < lo THEN <<Issue(path, "too_small", FALSE)>> ELSE <<>>)
         \o (IF CharLen(v.s) > hi THEN <<Issue(path, "too_big", FALSE)>> ELSE <<>>)

\* z.string().email()
EmailIssues(path, v) ==
    IF v.t # "str" THEN <<Issue(path, "invalid_type", TRUE)>>
    ELSE IF Len(v.s) = 1 /\ v.s[1] \in EmailAtoms THEN <<>>
    ELSE <<Issue(path, "invalid_string", FALSE)>>

\* z.string().regex(/^\d{10,15}$/)
PhoneIssues(path, v) ==
    IF v.t # "str" THEN <<Issue(path, "invalid_type", TRUE)>>
    ELSE IF Len(v.s) = 1 /\ v.s[1] \in DigitAtoms /\ Len(v.s[1]) >= 10 /\ Len(v.s[1]) <= 15
         THEN <<>>
    ELSE <<Issue(path, "invalid_string", FALSE)>>

\* z.nativeEnum(E)
EnumIssues(path, v, E) ==
    IF v.t # "str" THEN <<Issue(path, "invalid_type", TRUE)>>
    ELSE IF Len(v.s) = 1 /\ v.s[1] \in E THEN <<>>
    ELSE <<Issue(path, "invalid_enum_value", TRUE)>>

\* z.number().int(): parseInt and JSON give integers or NaN here
IntIssues(path, v) ==
    IF v.t = "num" THEN <<>> ELSE <<Issue(path, "invalid_type", TRUE)>>

\* z.array(z.string())
StringArrayIssues(path, v) ==
    IF v.t # "arr" THEN <<Issue(path, "invalid_type", TRUE)>>
    ELSE IF \A i \in 1..Len(v.a) : v.a[i].t = "str" THEN <<>>
    ELSE <<Issue(path, "invalid_type", TRUE)>>

\* .optional(): undefined passes, everything else goes to the inner schema
OptionalAccepts(v) == v = Undefined

\* the issues of the z.object({...}) part, in the order of its keys
ObjectIssues(d) ==
    StringIssues("fullName", d.fullName, 2, 80)
    \o (IF OptionalAccepts(d.email) THEN <<>> ELSE EmailIssues("email", d.email))
    \o PhoneIssues("phone", d.phone)
    \o EnumIssues("city", d.city, City)
    \o EnumIssues("propertyType", d.propertyType, PropertyType)
    \o (IF OptionalAccepts(d.bhk) THEN <<>> ELSE EnumIssues("bhk", d.bhk, BHK))
    \o EnumIssues("purpose", d.purpose, Purpose)
    \o (IF OptionalAccepts(d.budgetMin) THEN <<>> ELSE IntIssues("budgetMin", d.budgetMin))
    \o (IF OptionalAccepts(d.budgetMax) THEN <<>> ELSE IntIssues("budgetMax", d.budgetMax))
    \o EnumIssues("timeline", d.timeline, Timeline)
    \o EnumIssues("source", d.source, Source)
    \o (IF OptionalAccepts(d.status) THEN <<>> ELSE EnumIssues("status", d.status, Status))
    \o (IF OptionalAccepts(d.notes) THEN <<>> ELSE StringIssues("notes", d.notes, 0, 1000))
    \o (IF OptionalAccepts(d.tags) THEN <<>> ELSE StringArrayIssues("tags", d.tags))

\* !data.bhk
Falsy(v) == v = Undefined \/ v = Null \/ v = NaN \/ v = Str(<<>>) \/ v = Num(0)

\* the two checks of superRefine
RefineIssues(d) ==
    (IF d.propertyType \in {Str(<<"Apartment">>), Str(<<"Villa">>)} /\ Falsy(d.bhk)
     THEN <<Issue("bhk", "custom", FALSE)>> ELSE <<>>)
    \o (IF /\ d.budgetMin \notin {Null, Undefined}
           /\ d.budgetMax \notin {Null, Undefined}
           /\ d.budgetMin.t = "num" /\ d.budgetMax.t = "num"
           /\ d.budgetMax.n < d.budgetMin.n
        THEN <<Issue("budgetMax", "custom", FALSE)>> ELSE <<>>)

\* buyerSchema.parse(d): the issues of the ZodError it throws, <<>> when it returns.
\* superRefine runs unless a key of the object failed outright.
SchemaIssues(d) ==
    LET obj == ObjectIssues(d)
    IN  IF \E i \in 1..Len(obj) : obj[i].aborts THEN obj ELSE obj \o RefineIssues(d)

SchemaAccepts(d) == SchemaIssues(d) = <<>>

(***************************************************************************)
(* String helpers of the import route                                      *)
(***************************************************************************)
\* s + ch, keeping atoms maximal
AppendSym(s, ch) ==
    IF s # <<>> /\ s[Len(s)] \notin Specials /\ ch \notin Specials
    THEN [s EXCEPT ![Len(s)] = s[Len(s)] \o ch]
    ELSE Append(s, ch)

IsWhitespace(ch) == ch \in {Space, Newline}

RECURSIVE TrimStart(_)
TrimStart(s) == IF s # <<>> /\ IsWhitespace(Head(s)) THEN TrimStart(Tail(s)) ELSE s
RECURSIVE TrimEnd(_)
TrimEnd(s) ==
    IF s # <<>> /\ IsWhitespace(s[Len(s)]) THEN TrimEnd(SubSeq(s, 1, Len(s) - 1)) ELSE s
\* String.prototype.trim
Trim(s) == TrimEnd(TrimStart(s))

\* String.prototype.split(sep) for a one-character separator: the pieces between the
\* occurrences of sep
Split(s, sep) ==
    LET at == {i \in 1..Len(s) : s[i] = sep}
        n == Cardinality(at)
        Occurrence(k) == IF k = 0 THEN 0
                         ELSE IF k = n + 1 THEN Len(s) + 1
                         ELSE CHOOSE p \in at : Cardinality({q \in at : q <= p}) = k
    IN  [k \in 1..(n + 1) |-> SubSeq(s, Occurrence(k - 1) + 1, Occurrence(k) - 1)]

RECURSIVE RemoveQuotesFrom(_, _, _)
RemoveQuotesFrom(s, i, acc) ==
    IF i > Len(s) THEN acc
    ELSE RemoveQuotesFrom(s, i + 1, IF s[i] = Quote THEN acc ELSE AppendSym(acc, s[i]))
\* h.replace(/"/g, '')
RemoveQuotes(s) == RemoveQuotesFrom(s, 1, <<>>)

MapSeq(q, F(_)) == [i \in 1..Len(q) |-> F(q[i])]

SeqIncludes(q, x) == \E i \in 1..Len(q) : q[i] = x

NonBlank(line) == Trim(line) # <<>>

\* the atoms of the sample inputs that start with an optionally signed run of digits,
\* and the number that run denotes
IntPrefix == [a \in {"5000000", "6000000", "12345", "-5", "12abc"} |->
                 CASE a = "5000000" -> 5000000
                   [] a = "6000000" -> 6000000
                   [] a = "12345" -> 12345
                   [] a = "-5" -> 0 - 5
                   [] a = "12abc" -> 12]
\* parseInt(s): the number its first atom starts with, NaN when it starts with none
ParseInt(s) ==
    LET t == TrimStart(s)
    IN  IF t # <<>> /\ Head(t) \in DOMAIN IntPrefix THEN Num(IntPrefix[Head(t)]) ELSE NaN

(***************************************************************************)
(* parseCSVLine (import/route.ts lines 225-261)                            *)
(***************************************************************************)
ExpectedColumns == 14

RECURSIVE PadTo(_, _)
\* while (result.length < 14) result.push('')
PadToNothing(result, n) == result
PadTo(result, n) == IF Len(result) < n THEN PadTo(Append(result, <<>>), n) ELSE result

RECURSIVE ParseFrom(_, _, _, _, _)
\* the for loop over the characters: i, current, inQuotes, result
ParseFrom(line, i, current, inQuotes, result) ==
    IF i > Len(line) THEN Append(result, Trim(current))
    ELSE IF line[i] = Quote
         THEN IF inQuotes /\ i + 1 <= Len(line) /\ line[i + 1] = Quote
              THEN ParseFrom(line, i + 2, AppendSym(current, Quote), inQuotes, result)
              ELSE ParseFrom(line, i + 1, current, ~inQuotes, result)
    ELSE IF line[i] = Comma /\ ~inQuotes
         THEN ParseFrom(line, i + 1, <<>>, inQuotes, Append(result, Trim(current)))
    ELSE ParseFrom(line, i + 1, AppendSym(current, line[i]), inQuotes, result)

parseCSVLine(line) ==
    IF line = <<>> \/ Trim(line) = <<>> THEN <<>>
    ELSE PadTo(ParseFrom(line, 1, <<>>, FALSE, <<>>), ExpectedColumns)

(***************************************************************************)
(* transformCSVRow (import/route.ts lines 264-320)                         *)
(***************************************************************************)
expectedHeaders ==
    << "fullName", "email", "phone", "city", "propertyType", "bhk", "purpose",
       "budgetMin", "budgetMax", "timeline", "source", "notes", "tags", "status" >>

RowOfExchanged(values) ==
    [h \in {expectedHeaders[i] : i \in 1..ExpectedColumns} |->
        values[CHOOSE i \in 1..ExpectedColumns :
                   expectedHeaders[i] = (CASE h = "fullName" -> "notes"
                                           [] h = "notes" -> "fullName"
                                           [] OTHER -> h)]]
\* lines 103-118: the row object built from the positions of values
RowOf(values) == [h \in {expectedHeaders[i] : i \in 1..ExpectedColumns} |->
                     values[CHOOSE i \in 1..ExpectedColumns : expectedHeaders[i] = h]]

\* !row.f || row.f.trim() === ''
Blank(s) == s = <<>> \/ Trim(s) = <<>>

\* the order of the seven "is required" checks
RequiredOrder == <<"fullName", "phone", "city", "propertyType", "purpose", "timeline", "source">>

FirstMissingFromTheEnd(row) ==
    LET missing == {i \in 1..Len(RequiredOrder) : Blank(row[RequiredOrder[i]])}
    IN  IF missing = {} THEN ""
        ELSE RequiredOrder[CHOOSE i \in missing : \A j \in missing : i >= j]
\* lines 267-287: the first blank required field, "" when there is none
FirstMissing(row) ==
    LET missing == {i \in 1..Len(RequiredOrder) : Blank(row[RequiredOrder[i]])}
    IN  IF missing = {} THEN ""
        ELSE RequiredOrder[CHOOSE i \in missing : \A j \in missing : i <= j]

\* x?.trim() || dflt
TrimOr(s, dflt) == IF Trim(s) = <<>> THEN dflt ELSE Str(Trim(s))

\* row.tags.split(',').map(t => t.trim()).filter(t => t.length > 0)
TagList(s) ==
    LET IsTag(t) == t # <<>>
        parts == MapSeq(Split(s, Comma), Trim)
    IN  Arr(MapSeq(SelectSeq(parts, IsTag), Str))

\* lines 290-305
TransformedData(row) ==
    [ fullName |-> Str(Trim(row.fullName)),
      email |-> TrimOr(row.email, Null),
      phone |-> Str(Trim(row.phone)),
      city |-> Str(Trim(row.city)),
      propertyType |-> Str(Trim(row.propertyType)),
      bhk |-> TrimOr(row.bhk, Null),
      purpose |-> Str(Trim(row.purpose)),
      budgetMin |-> IF row.budgetMin # <<>> /\ Trim(row.budgetMin) # <<>>
                    THEN ParseInt(row.budgetMin) ELSE Null,
      budgetMax |-> IF row.budgetMax # <<>> /\ Trim(row.budgetMax) # <<>>
                    THEN ParseInt(row.budgetMax) ELSE Null,
      timeline |-> Str(Trim(row.timeline)),
      source |-> Str(Trim(row.source)),
      status |-> TrimOr(row.status, Str(<<"New">>)),
      notes |-> TrimOr(row.notes, Null),
      tags |-> IF row.tags # <<>> /\ Trim(row.tags) # <<>> THEN TagList(row.tags) ELSE Arr(<<>>) ]

\* what transformCSVRow returns; message is the text of error as its parts
transformCSVRow(row) ==
    IF FirstMissing(row) # ""
    THEN [success |-> FALSE, message |-> <<"required", FirstMissing(row)>>]
    ELSE LET issues == SchemaIssues(TransformedData(row))
         IN  IF issues = <<>>
             THEN [success |-> TRUE, data |-> TransformedData(row)]
             ELSE [success |-> FALSE, message |-> <<"zod", issues[1].path, issues[1].code>>]

(***************************************************************************)
(* Storage: what prisma.buyer.create, prisma.buyerHistory.create and       *)
(* prisma.$transaction do to the two tables                                *)
(***************************************************************************)
OwnerId == "user-id-123"

\* the row prisma.buyer.create stores: a field left undefined takes the column's
\* default ('New' for status) or NULL
StoredRow(data) ==
    [f \in DOMAIN data |->
        IF data[f] # Undefined THEN data[f]
        ELSE IF f = "status" THEN Str(<<"New">>) ELSE Null]

BuyerWrite(id, row) == [table |-> "Buyer", id |-> id, row |-> row]
HistoryWrite(entry) == [table |-> "BuyerHistory", entry |-> entry]

IsBuyerWrite(w) == w.table = "Buyer"
IsHistoryWrite(w) == w.table = "BuyerHistory"

BuyersAfter(table, writes) ==
    LET created == SelectSeq(writes, IsBuyerWrite)
        ids == {created[i].id : i \in 1..Len(created)}
    IN  [id \in DOMAIN table \cup ids |->
            IF id \in ids
            THEN created[CHOOSE i \in 1..Len(created) : created[i].id = id].row
            ELSE table[id]]

HistoryAfter(table, writes) ==
    LET EntryOf(w) == w.entry
    IN  table \o MapSeq(SelectSeq(writes, IsHistoryWrite), EntryOf)

TransactionOutcomeWithoutRollback(writes, committed) == writes
\* prisma.$transaction(async (tx) => ...): the writes made through tx reach the tables
\* when the callback returns, none of them when it throws
TransactionOutcome(writes, committed) == IF committed THEN writes ELSE <<>>

(***************************************************************************)
(* importCSV (import/route.ts lines 34-220)                                *)
(***************************************************************************)
MaxFileSize == 5 * 1024 * 1024
MaxLines == 201

\* file.name.toLowerCase() for the endings of the sample names
LowerCase(a) == CASE a = ".CSV" -> ".csv" [] a = ".Csv" -> ".csv" [] OTHER -> a

RECURSIVE JoinLines(_)
JoinLines(lines) ==
    IF lines = <<>> THEN <<>>
    ELSE IF Len(lines) = 1 THEN lines[1]
    ELSE LET half == Len(lines) \div 2
         IN  JoinLines(SubSeq(lines, 1, half)) \o <<Newline>>
                 \o JoinLines(SubSeq(lines, half + 1, Len(lines)))

\* await file.text()
FileText(file) == JoinLines(<<file.header>> \o file.dataLines)

ColumnsMessage(got) == <<"columns", ExpectedColumns, got>>

RowNumberOfIndex(i) == i
\* row: i + 1
RowNumber(i) == i + 1

RECURSIVE ScanRows(_, _, _)
\* the for loop of lines 87-139; i is the loop variable, lines[i] of the code is lines[i + 1]
ScanRows(lines, i, acc) ==
    IF ~(i < Len(lines)) THEN acc
    ELSE LET line == lines[i + 1]
             values == parseCSVLine(line)
             result == transformCSVRow(RowOf(values))
         IN  IF line = <<>> \/ Trim(line) = <<>> THEN ScanRows(lines, i + 1, acc)
             ELSE IF Len(values) # Len(expectedHeaders)
             THEN ScanRows(lines, i + 1,
                      [acc EXCEPT !.errors = Append(@, [row |-> RowNumber(i),
                                                       message |-> ColumnsMessage(Len(values))])])
             ELSE IF result.success
             THEN ScanRows(lines, i + 1,
                      [acc EXCEPT !.csvRows = @ + 1, !.validData = Append(@, result.data)])
             ELSE ScanRows(lines, i + 1,
                      [acc EXCEPT !.csvRows = @ + 1,
                                  !.errors = Append(@, [row |-> RowNumber(i),
                                                       message |-> result.message])])

\* lines 55-139 for a file that passed the checks on the file object
Scan(text) ==
    LET lines == SelectSeq(Split(text, Newline), NonBlank)
        header == MapSeq(MapSeq(Split(lines[1], Comma), Trim), RemoveQuotes)
        missingHeaders == {i \in 1..Len(expectedHeaders) :
                               ~SeqIncludes(header, <<expectedHeaders[i]>>)}
    IN  IF Len(lines) = 0 THEN [fatal |-> "CSV file is empty"]
        ELSE IF Len(lines) > MaxLines
        THEN [fatal |-> "Maximum 200 rows allowed (excluding header)"]
        ELSE IF missingHeaders # {} THEN [fatal |-> "Missing required headers"]
        ELSE [fatal |-> ""] @@ ScanRows(lines, 1, [csvRows |-> 0, errors |-> <<>>, validData |-> <<>>])

FileErrorIgnoresSize(file) ==
    IF ~file.present THEN "No file provided"
    ELSE IF LowerCase(file.name[Len(file.name)]) # ".csv" THEN "Only CSV files are allowed"
    ELSE ""
\* lines 36-51: the checks on the file object; "" when it passes them
FileError(file) ==
    IF ~file.present THEN "No file provided"
    ELSE IF file.size > MaxFileSize THEN "File size too large. Maximum 5MB allowed."
    ELSE IF LowerCase(file.name[Len(file.name)]) # ".csv" THEN "Only CSV files are allowed"
    ELSE ""

ErrorResponse(status, error) == [status |-> status, error |-> error]
ReportResponse(success, totalRows, validRows, errors, insertedCount) ==
    [ status |-> 200, success |-> success, totalRows |-> totalRows, validRows |-> validRows,
      errors |-> errors, insertedCount |-> insertedCount ]

\* diff of the history entry of lines 182-191
ImportedDiff(t) == [action |-> "IMPORTED", timestamp |-> <<"ISO", t>>]

GateBlocksOnlyEmptyBatches(scan) == Len(scan.errors) > 0 /\ Len(scan.validData) = 0
\* if (errors.length > 0), line 142
GateBlocks(scan) == Len(scan.errors) > 0

(***************************************************************************)
(* Scenario 3: one upload to POST /api/buyers/import                       *)
(***************************************************************************)
MaxDataLines == 3

JoinFields(fields) ==
    LET RECURSIVE Join(_)
        Join(fs) == IF fs = <<>> THEN <<>>
                    ELSE IF Len(fs) = 1 THEN fs[1]
                    ELSE fs[1] \o <<Comma>> \o Join(Tail(fs))
    IN  Join(fields)

ValidFields ==
    << <<"Asha">>, <<"a@b.co">>, <<"9876543210">>, <<"Mohali">>, <<"Plot">>, <<"TWO">>, <<"Buy">>,
       <<"5000000">>, <<"6000000">>, <<"GT_6M">>, <<"Call">>, <<"note">>, <<"vip">>, <<"New">> >>
\* "Rao, K" and "a, b" are quoted; a space follows the first comma
QuotedFields ==
    << <<Quote, "Rao", Comma, Space, "K", Quote>>, <<Space, "a@b.co">>, <<"9876543210">>,
       <<"Other">>, <<"Villa">>, <<"ONE">>, <<"Rent">>, <<"5000000">>, <<"5000000">>,
       <<"EXPLORING">>, <<"Website">>, <<"note">>, <<Quote, "a", Comma, Space, "b", Quote>>,
       <<"Contacted">> >>

ValidLine == JoinFields(ValidFields)
QuotedLine == JoinFields(QuotedFields)
ShortPhoneLine == JoinFields([ValidFields EXCEPT ![3] = <<"12345">>])
ExtraColumnLine == JoinFields(ValidFields \o << <<"extra">> >>)
TwoColumnLine == JoinFields(SubSeq(ValidFields, 1, 2))
NoEmailLine == JoinFields([ValidFields EXCEPT ![2] = <<>>])
SpacesLine == <<Space, Space>>

SampleLines == { ValidLine, QuotedLine, ShortPhoneLine, ExtraColumnLine, TwoColumnLine,
                 NoEmailLine, SpacesLine }

HeaderLine == JoinFields(MapSeq(expectedHeaders, LAMBDA h : <<h>>))
HeaderWithoutStatus == JoinFields(MapSeq(SubSeq(expectedHeaders, 1, 13), LAMBDA h : <<h>>))

CsvFile(dataLines) ==
    [ present |-> TRUE, size |-> 1024, name |-> <<"buyers", ".csv">>, header |-> HeaderLine,
      dataLines |-> dataLines ]

\* uploads that pass the checks on the file and on the header
DataFiles == {CsvFile(ls) : ls \in UNION {[1..n -> SampleLines] : n \in 0..MaxDataLines}}

\* uploads that one of those checks stops
RejectedFiles ==
    { [CsvFile(<<ValidLine>>) EXCEPT !.present = FALSE],
      [CsvFile(<<ValidLine>>) EXCEPT !.size = MaxFileSize + 1],
      [CsvFile(<<ValidLine>>) EXCEPT !.name = <<"buyers", ".txt">>],
      [CsvFile(<<>>) EXCEPT !.header = <<>>],
      CsvFile([i \in 1..MaxLines |-> <<"x">>]),
      [CsvFile(<<ValidLine>>) EXCEPT !.header = HeaderWithoutStatus] }

Files == DataFiles \cup RejectedFiles

\* the tables after an earlier import of one valid row
ImportedRow(line) == StoredRow(TransformedData(RowOf(parseCSVLine(line)))) @@ [ownerId |-> OwnerId]
EarlierBuyers == [id \in {1} |-> ImportedRow(ValidLine)]
EarlierHistory == <<[buyerId |-> 1, changedBy |-> OwnerId, diff |-> ImportedDiff(1700)]>>

InitImport ==
    /\ now = 1700
    /\ rateLimitStore = <<>>
    /\ last = NoOp
    /\ admitted = <<>>
    /\ callsPending = 0
    /\ callFrames = <<>>
    /\ callResults = <<>>
    /\ \/ buyers = <<>> /\ history = <<>> /\ nextId = 1
       \/ buyers = EarlierBuyers /\ history = EarlierHistory /\ nextId = 2
    /\ imp = ImpIdle
    /\ sent = <<>>
    /\ exchange = NoExchange

ImportDone(file, response) ==
    [ImpIdle EXCEPT !.pc = "done", !.file = file, !.firstId = nextId, !.response = response]

\* lines 36-150: the request arrives, the file is checked and scanned; either the
\* response is sent or the transaction is opened
ImportOf(file) ==
    LET scan == Scan(FileText(file))
    IN  /\ imp.pc = "idle"
        /\ imp' =
               IF FileError(file) # "" THEN ImportDone(file, ErrorResponse(400, FileError(file)))
               ELSE IF scan.fatal # "" THEN ImportDone(file, ErrorResponse(400, scan.fatal))
               ELSE IF GateBlocks(scan)
               THEN ImportDone(file, ReportResponse(FALSE, scan.csvRows, Len(scan.validData),
                                                    scan.errors, 0))
               ELSE [ImpIdle EXCEPT !.pc = "tx", !.file = file, !.firstId = nextId,
                                    !.totalRows = scan.csvRows, !.validData = scan.validData,
                                    !.index = 1, !.phase = "buyer", !.attempts = 1]
        /\ UNCHANGED <<now, limiterVarsButNow, burstVars, storageVars, apiVars>>

ImportRequest == \E file \in Files : ImportOf(file)

\* the catch of line 205, after the transaction has rolled back
ImportFailed ==
    /\ buyers' = BuyersAfter(buyers, TransactionOutcome(imp.writes, FALSE))
    /\ history' = HistoryAfter(history, TransactionOutcome(imp.writes, FALSE))
    /\ imp' = [imp EXCEPT !.pc = "done",
                          !.response = ErrorResponse(500, "Failed to import buyers")]

\* lines 159-179: buyerSchema.parse(data), then await tx.buyer.create
TxCreateBuyer ==
    /\ imp.pc = "tx"
    /\ imp.phase = "buyer"
    /\ imp.index <= Len(imp.validData)
    /\ LET parsedData == imp.validData[imp.index]
       IN  IF ~SchemaAccepts(parsedData)
           THEN ImportFailed /\ UNCHANGED nextId
           ELSE /\ imp' = [imp EXCEPT
                              !.writes = Append(@, BuyerWrite(nextId,
                                             StoredRow(parsedData) @@ [ownerId |-> OwnerId])),
                              !.buyerId = nextId,
                              !.phase = "history"]
                /\ nextId' = nextId + 1
                /\ UNCHANGED <<buyers, history>>
    /\ UNCHANGED <<now, limiterVarsButNow, burstVars, apiVars>>

\* lines 182-193: await tx.buyerHistory.create, insertedCount++
TxCreateHistory ==
    /\ imp.pc = "tx"
    /\ imp.phase = "history"
    /\ imp' = [imp EXCEPT
                  !.writes = Append(@, HistoryWrite([buyerId |-> imp.buyerId, changedBy |-> OwnerId,
                                                     diff |-> ImportedDiff(now)])),
                  !.insertedCount = @ + 1,
                  !.index = @ + 1,
                  !.phase = "buyer"]
    /\ UNCHANGED <<now, limiterVarsButNow, burstVars, storageVars, apiVars>>

\* the callback has returned: the transaction commits and lines 197-203 answer
TxCommit ==
    /\ imp.pc = "tx"
    /\ imp.phase = "buyer"
    /\ imp.index > Len(imp.validData)
    /\ buyers' = BuyersAfter(buyers, TransactionOutcome(imp.writes, TRUE))
    /\ history' = HistoryAfter(history, TransactionOutcome(imp.writes, TRUE))
    /\ imp' = [imp EXCEPT !.pc = "done",
                          !.response = ReportResponse(TRUE, imp.totalRows, Len(imp.validData),
                                                      <<>>, imp.insertedCount)]
    /\ UNCHANGED <<now, nextId, limiterVarsButNow, burstVars, apiVars>>

\* a write or the commit is refused by the database: the promise of $transaction rejects
TxStorageError ==
    /\ imp.pc = "tx"
    /\ ImportFailed
    /\ UNCHANGED <<now, nextId, limiterVarsButNow, burstVars, apiVars>>

NextImport ==
    \/ ImportRequest
    \/ TxCreateBuyer
    \/ TxCreateHistory
    \/ TxCommit
    \/ TxStorageError

SpecImport == InitImport /\ [][NextImport]_vars

(***************************************************************************)
(* Scenario 3b: imports of files whose rows are shorter or longer than the *)
(* header, hold a quoted newline, or whose header names the columns in     *)
(* another order                                                           *)
(***************************************************************************)
MaxLayoutLines == 2

\* the first twelve columns of the valid row: tags and status are missing
TwelveColumnLine == JoinFields(SubSeq(ValidFields, 1, 12))
\* the valid row with the notes "note\nmore", written in quotes
NewlineFields == [ValidFields EXCEPT ![12] = <<Quote, "note", Newline, "more", Quote>>]
NewlineLine == JoinFields(NewlineFields)

LayoutLines == {ValidLine, ExtraColumnLine, TwoColumnLine, TwelveColumnLine, NewlineLine}

\* the fixed column order with columns 1 (fullName) and 12 (notes) exchanged
SwapColumns(q) == [q EXCEPT ![1] = q[12], ![12] = q[1]]
SwappedHeader == JoinFields(MapSeq(SwapColumns(expectedHeaders), LAMBDA h : <<h>>))
\* the valid row written in the order of SwappedHeader
SwappedLine == JoinFields(SwapColumns(ValidFields))

LayoutFiles ==
    {CsvFile(ls) : ls \in UNION {[1..n -> LayoutLines] : n \in 1..MaxLayoutLines}}
        \cup {[CsvFile(ls) EXCEPT !.header = SwappedHeader] :
                  ls \in UNION {[1..n -> {SwappedLine}] : n \in 1..MaxLayoutLines}}

LayoutRequest == \E file \in LayoutFiles : ImportOf(file)

NextLayout ==
    \/ LayoutRequest
    \/ TxCreateBuyer
    \/ TxCreateHistory
    \/ TxCommit
    \/ TxStorageError

SpecLayout == InitImport /\ [][NextLayout]_vars

(***************************************************************************)
(* Scenario 4: requests to POST /api/buyers and PATCH /api/buyers/[id]/status *)
(***************************************************************************)
MaxPatches == 2
\* one request more than the create limit admits
MaxPosts == RATE_LIMITS.BUYER_CREATE.maxRequests + 1

RECURSIVE Text(_)
\* the string a sequence of symbols spells
Text(s) == IF s = <<>> THEN "" ELSE Head(s) \o Text(Tail(s))

DecimalString(n) == <<"decimal", n>>
ToISOString(t) == <<"ISO", t>>
\* Math.ceil(ms / 1000)
CeilSeconds(ms) == IF ms >= 0 THEN (ms + 999) \div 1000 ELSE 0 - ((0 - ms) \div 1000)

Truthy(v) == ~Falsy(v)

getUserIdentifierAddressFirst(headers) ==
    IF Truthy(headers.forwarded) THEN "ip:" \o Text(Split(headers.forwarded.s, Comma)[1])
    ELSE IF Truthy(headers.userId) THEN "user:" \o Text(headers.userId.s)
    ELSE "ip:unknown"
\* getUserIdentifier(req), lines 145-156; headers.get gives null for an absent header
getUserIdentifier(headers) ==
    IF Truthy(headers.userId) THEN "user:" \o Text(headers.userId.s)
    ELSE "ip:" \o (IF Truthy(headers.forwarded)
                   THEN Text(Split(headers.forwarded.s, Comma)[1])
                   ELSE "unknown")

RequestHeaders ==
    { [userId |-> Str(<<"u1">>), forwarded |-> Str(<<"1.2.3.4">>)],
      [userId |-> Null, forwarded |-> Str(<<"1.2.3.4", Comma, Space, "5.6.7.8">>)] }

JsonHeaders == [h \in {"content-type"} |-> "application/json"]
\* NextResponse.json(body, {status})
JsonResponse(status, body) == [status |-> status, headers |-> JsonHeaders, body |-> body]

\* the 429 response of lines 185-201
RateLimitResponse(result, cfg, t) ==
    [ status |-> 429,
      headers |-> [h \in {"Content-Type", "X-RateLimit-Limit", "X-RateLimit-Remaining",
                          "X-RateLimit-Reset", "Retry-After"} |->
                      CASE h = "Content-Type" -> "application/json"
                        [] h = "X-RateLimit-Limit" -> DecimalString(cfg.maxRequests)
                        [] h = "X-RateLimit-Remaining" -> DecimalString(result.remaining)
                        [] h = "X-RateLimit-Reset" -> DecimalString(result.resetTime)
                        [] h = "Retry-After" -> DecimalString(CeilSeconds(result.resetTime - t))],
      body |-> [ error |-> "Rate limit exceeded", message |-> result.message,
                 remaining |-> result.remaining, resetTime |-> ToISOString(result.resetTime) ] ]

\* the copy of the handler's response of lines 207-217
WithRateLimitHeaders(response, result, cfg) ==
    [response EXCEPT !.headers =
        [h \in DOMAIN response.headers
               \cup {"X-RateLimit-Limit", "X-RateLimit-Remaining", "X-RateLimit-Reset"} |->
            CASE h = "X-RateLimit-Limit" -> DecimalString(cfg.maxRequests)
              [] h = "X-RateLimit-Remaining" -> DecimalString(result.remaining)
              [] h = "X-RateLimit-Reset" -> DecimalString(result.resetTime)
              [] OTHER -> response.headers[h]]]

RejectsNothing(result) == FALSE
\* if (!result.allowed)
Rejects(result) == ~result.allowed

\* where a database call of a handler may throw
FailurePoints == {"none", "update", "history", "create"}

HandlerOutcome(table, entries, next, writes, response) ==
    [buyers |-> table, history |-> entries, nextId |-> next, writes |-> writes, response |-> response]

StatusDiff(old, new, t) ==
    [ action |-> "STATUS_UPDATED", changes |-> [status |-> [old |-> old, new |-> new]],
      timestamp |-> ToISOString(t) ]

\* updateBuyerStatus: what it leaves in the tables and what it returns
updateBuyerStatus(buyerId, body, t, failAt) ==
    LET unchanged(response) == HandlerOutcome(buyers, history, nextId, 0, response)
        internalError == JsonResponse(500, [error |-> "Internal server error"])
        updated == [buyers EXCEPT ![buyerId].status = body.status]
        entry == [ buyerId |-> buyerId, changedBy |-> OwnerId,
                   diff |-> StatusDiff(buyers[buyerId].status, body.status, t) ]
    IN  IF EnumIssues("status", body.status, Status) # <<>>
        THEN unchanged(JsonResponse(400, [error |-> "Invalid status value"]))
        ELSE IF buyerId \notin DOMAIN buyers
        THEN unchanged(JsonResponse(404, [error |-> "Buyer not found"]))
        ELSE IF failAt = "update" THEN unchanged(internalError)
        ELSE IF buyers[buyerId].status = body.status
        THEN HandlerOutcome(updated, history, nextId, 1, JsonResponse(200, updated[buyerId]))
        ELSE IF failAt = "history"
        THEN HandlerOutcome(updated, history, nextId, 1, internalError)
        ELSE HandlerOutcome(updated, Append(history, entry), nextId, 2,
                            JsonResponse(200, updated[buyerId]))

\* the data object of prisma.buyer.create in POST /api/buyers
CreatedRow(parsed) ==
    [ fullName |-> parsed.fullName,
      email |-> Coalesce(parsed.email, Null),
      phone |-> parsed.phone,
      city |-> parsed.city,
      propertyType |-> parsed.propertyType,
      bhk |-> Coalesce(parsed.bhk, Null),
      purpose |-> parsed.purpose,
      budgetMin |-> Coalesce(parsed.budgetMin, Null),
      budgetMax |-> Coalesce(parsed.budgetMax, Null),
      timeline |-> parsed.timeline,
      source |-> parsed.source,
      status |-> Coalesce(parsed.status, Str(<<"New">>)),
      notes |-> Coalesce(parsed.notes, Null),
      tags |-> Coalesce(parsed.tags, Arr(<<>>)),
      ownerId |-> OwnerId ]

\* POST of app/api/buyers/route.ts: what it leaves in the tables and what it returns
createBuyer(body, failAt) ==
    IF ~SchemaAccepts(body)
    THEN HandlerOutcome(buyers, history, nextId, 0,
                        JsonResponse(400, [error |-> <<"zod", SchemaIssues(body)[1].path>>]))
    ELSE IF failAt = "create"
    THEN HandlerOutcome(buyers, history, nextId, 0, JsonResponse(400, [error |-> "prisma"]))
    ELSE HandlerOutcome(MapSet(buyers, nextId, CreatedRow(body)), history, nextId + 1, 1,
                        JsonResponse(201, CreatedRow(body) @@ [id |-> nextId]))

\* request bodies: a form that fills every field, and the same with a five-digit phone
FullBody == TransformedData(RowOf(parseCSVLine(ValidLine)))
PostBodies == {FullBody, [FullBody EXCEPT !.phone = Str(<<"12345">>)]}
StatusBodies == {[status |-> Str(<<"Contacted">>)], [status |-> Str(<<"New">>)],
                 [status |-> Str(<<"Unknown">>)]}

SentCount(endpoint, identifier) ==
    IF <<endpoint, identifier>> \in DOMAIN sent THEN sent[<<endpoint, identifier>>] ELSE 0
SentTo(endpoint) ==
    LET identifiers == {getUserIdentifier(h) : h \in RequestHeaders}
        RECURSIVE Sum(_)
        Sum(ids) == IF ids = {} THEN 0
                    ELSE LET id == CHOOSE x \in ids : TRUE
                         IN  SentCount(endpoint, id) + Sum(ids \ {id})
    IN  Sum(identifiers)

\* rateLimitedHandler, lines 177-219, around a handler whose outcome is given
RateLimitedRequest(endpoint, limiter, headers, outcome) ==
    LET identifier == getUserIdentifier(headers)
        cfg == Config(limiter)
        key == KeyOf(identifier, WindowStart(now, cfg))
        currentCount == CurrentCount(rateLimitStore, key)
        result == CheckResult(now, currentCount, 1, cfg)
        ordinal == SentCount(endpoint, identifier) + 1
    IN  /\ rateLimitStore' = StoreAfterCheck(rateLimitStore, now, identifier, currentCount, 1, cfg)
        /\ last' = [ op |-> "checkLimit", limiter |-> limiter, identifier |-> identifier,
                     requestCount |-> 1, at |-> now, countBefore |-> currentCount,
                     admittedBefore |-> AdmittedUnits(key), result |-> result ]
        /\ admitted' = IF result.allowed
                       THEN MapSet(admitted, key, AdmittedUnits(key) + 1)
                       ELSE admitted
        /\ sent' = MapSet(sent, <<endpoint, identifier>>, ordinal)
        /\ IF Rejects(result)
           THEN /\ exchange' = [ endpoint |-> endpoint, identifier |-> identifier,
                                 ordinal |-> ordinal, limit |-> result, invoked |-> 0,
                                 writes |-> 0, response |-> RateLimitResponse(result, cfg, now) ]
                /\ UNCHANGED storageVars
           ELSE /\ exchange' = [ endpoint |-> endpoint, identifier |-> identifier,
                                 ordinal |-> ordinal, limit |-> result, invoked |-> 1,
                                 writes |-> outcome.writes,
                                 response |-> WithRateLimitHeaders(outcome.response, result, cfg) ]
                /\ buyers' = outcome.buyers
                /\ history' = outcome.history
                /\ nextId' = outcome.nextId
        /\ UNCHANGED <<now, burstVars, imp>>

\* a route that exports its handler as it is
DirectRequest(endpoint, headers, outcome) ==
    LET identifier == getUserIdentifier(headers)
        ordinal == SentCount(endpoint, identifier) + 1
    IN  /\ sent' = MapSet(sent, <<endpoint, identifier>>, ordinal)
        /\ exchange' = [ endpoint |-> endpoint, identifier |-> identifier, ordinal |-> ordinal,
                         limit |-> [allowed |-> TRUE], invoked |-> 1, writes |-> outcome.writes,
                         response |-> outcome.response ]
        /\ buyers' = outcome.buyers
        /\ history' = outcome.history
        /\ nextId' = outcome.nextId
        /\ UNCHANGED <<now, rateLimitStore, last, admitted, burstVars, imp>>

\* requests of the running hour to the two routes behind rateLimiters.buyerUpdate
UpdatesSent == SentTo("PATCH /api/buyers/[id]/status") + SentTo("PUT /api/buyers/[id]")

\* the buyers a status request may name: the oldest one and one that does not exist
TargetIds == {nextId} \cup {id \in DOMAIN buyers : \A other \in DOMAIN buyers : id <= other}

\* export const PATCH = withRateLimit(rateLimiters.buyerUpdate)(updateBuyerStatus)
PATCH ==
    \E headers \in RequestHeaders, buyerId \in TargetIds, body \in StatusBodies,
       failAt \in FailurePoints \ {"create"} :
        /\ UpdatesSent < MaxPatches
        /\ RateLimitedRequest("PATCH /api/buyers/[id]/status", "buyerUpdate", headers,
                              updateBuyerStatus(buyerId, body, now, failAt))

\* export async function POST(req: Request)
POST ==
    \E headers \in RequestHeaders, body \in PostBodies, failAt \in {"none", "create"} :
        /\ SentTo("POST /api/buyers") < MaxPosts
        /\ DirectRequest("POST /api/buyers", headers, createBuyer(body, failAt))

\* the server has been up for a second of its second hour
ApiStart == RATE_LIMITS.BUYER_UPDATE.windowMs + 1000
ApiInstants == {ApiStart, ApiStart + RATE_LIMITS.BUYER_UPDATE.windowMs}
BusyKey == KeyOf("user:u1", WindowStart(ApiStart, RATE_LIMITS.BUYER_UPDATE))
BusyCount == RATE_LIMITS.BUYER_UPDATE.maxRequests - 1

\* the clock moves on to a later sample reading; the requests of an hour that is over
\* are no longer counted
TickApi ==
    /\ \E t \in ApiInstants : t > now /\ now' = t
    /\ last' = Did("tick")
    /\ LET hour == WindowStart(now', RATE_LIMITS.BUYER_UPDATE)
       IN  /\ admitted' = [k \in {k \in DOMAIN admitted : k[2] >= hour} |-> admitted[k]]
           /\ sent' = IF hour = WindowStart(now, RATE_LIMITS.BUYER_UPDATE) THEN sent ELSE <<>>
    /\ UNCHANGED <<rateLimitStore, burstVars, storageVars, imp, exchange>>

\* Scenario 4a, status updates: one buyer was created in the first hour. In the running
\* hour the first identity has sent nothing yet, or has already been admitted one request
\* short of the update limit by status requests that named no existing buyer.
InitStatus ==
    /\ now = ApiStart
    /\ \/ rateLimitStore = <<>> /\ admitted = <<>>
       \/ /\ rateLimitStore =
                 MapSet(<<>>, BusyKey,
                        [ count |-> BusyCount,
                          resetTime |-> BusyKey[2] + RATE_LIMITS.BUYER_UPDATE.windowMs ])
          /\ admitted = MapSet(<<>>, BusyKey, BusyCount)
    /\ last = NoOp
    /\ callsPending = 0
    /\ callFrames = <<>>
    /\ callResults = <<>>
    /\ buyers = MapSet(<<>>, 1, CreatedRow(FullBody))
    /\ history = <<>>
    /\ nextId = 2
    /\ imp = ImpIdle
    /\ sent = <<>>
    /\ exchange = NoExchange

NextStatus ==
    \/ PATCH
    \/ TickApi

SpecStatus == InitStatus /\ [][NextStatus]_vars

\* Scenario 4b, creation: the tables are empty and nothing has been sent
InitCreate ==
    /\ now = ApiStart
    /\ rateLimitStore = <<>>
    /\ admitted = <<>>
    /\ last = NoOp
    /\ callsPending = 0
    /\ callFrames = <<>>
    /\ callResults = <<>>
    /\ buyers = <<>>
    /\ history = <<>>
    /\ nextId = 1
    /\ imp = ImpIdle
    /\ sent = <<>>
    /\ exchange = NoExchange

NextCreate ==
    \/ POST
    \/ TickApi

SpecCreate == InitCreate /\ [][NextCreate]_vars

(***************************************************************************)
(* Scenario 5: PUT /api/buyers/[id] next to the status route               *)
(***************************************************************************)
fieldsToTrack ==
    << "fullName", "email", "phone", "city", "propertyType", "bhk", "purpose", "budgetMin",
       "budgetMax", "timeline", "source", "status", "notes", "tags" >>

\* JSON.stringify(v) as the parts of its text; undefined has no text, NaN is written null
JsonText(v) ==
    CASE v = Undefined -> <<"undefined">>
      [] v = Null \/ v = NaN -> <<"null">>
      [] v.t = "str" -> <<Quote>> \o v.s \o <<Quote>>
      [] v.t = "num" -> <<"number", v.n>>
      [] v.t = "arr" -> <<"[", [i \in 1..Len(v.a) |-> <<Quote>> \o v.a[i].s \o <<Quote>>], "]">>

\* JSON.parse(JSON.stringify(v)) for a value inside an object
JsonRoundTrip(v) == IF v = NaN THEN Null ELSE v

ValueChangedAlways(oldValue, newValue) == TRUE
\* JSON.stringify(oldValue) !== JSON.stringify(newValue)
ValueChanged(oldValue, newValue) == JsonText(oldValue) # JsonText(newValue)

\* the object changes of lines 319-337
Changes(currentBuyer, updatedBuyer) ==
    LET fields == {fieldsToTrack[i] : i \in 1..Len(fieldsToTrack)}
        changed == {f \in fields : ValueChanged(currentBuyer[f], updatedBuyer[f])}
    IN  [f \in changed |-> [old |-> currentBuyer[f], new |-> updatedBuyer[f]]]

\* the diff of lines 345-349, after its trip through JSON; a member that is undefined
\* is left out by JSON.stringify
UpdatedDiff(changes, t) ==
    [ action |-> "UPDATED",
      changes |-> [f \in DOMAIN changes |->
                      LET kept == {m \in {"old", "new"} : changes[f][m] # Undefined}
                      IN  [m \in kept |-> JsonRoundTrip(changes[f][m])]],
      timestamp |-> ToISOString(t) ]

\* the row prisma.buyer.update leaves, lines 298-316
UpdatedRow(currentBuyer, parsed) ==
    [ fullName |-> parsed.fullName,
      email |-> Coalesce(parsed.email, Null),
      phone |-> parsed.phone,
      city |-> parsed.city,
      propertyType |-> parsed.propertyType,
      bhk |-> Coalesce(parsed.bhk, Null),
      purpose |-> parsed.purpose,
      budgetMin |-> Coalesce(parsed.budgetMin, Null),
      budgetMax |-> Coalesce(parsed.budgetMax, Null),
      timeline |-> parsed.timeline,
      source |-> parsed.source,
      status |-> Coalesce(parsed.status, currentBuyer.status),
      notes |-> Coalesce(parsed.notes, Null),
      tags |-> Coalesce(parsed.tags, Arr(<<>>)),
      ownerId |-> currentBuyer.ownerId ]

\* updateBuyer: what it leaves in the tables and what it returns
updateBuyer(buyerId, body, t, failAt) ==
    LET unchanged(response) == HandlerOutcome(buyers, history, nextId, 0, response)
        internalError == JsonResponse(500, [error |-> "Internal server error"])
        updatedBuyer == UpdatedRow(buyers[buyerId], body)
        updated == [buyers EXCEPT ![buyerId] = updatedBuyer]
        changes == Changes(buyers[buyerId], updatedBuyer)
        entry == [ buyerId |-> buyerId, changedBy |-> OwnerId, diff |-> UpdatedDiff(changes, t) ]
    IN  IF ~SchemaAccepts(body)
        THEN unchanged(JsonResponse(400, [error |-> "Validation error"]))
        ELSE IF buyerId \notin DOMAIN buyers
        THEN unchanged(JsonResponse(404, [error |-> "Buyer not found"]))
        ELSE IF failAt = "update" THEN unchanged(internalError)
        ELSE IF DOMAIN changes = {}
        THEN HandlerOutcome(updated, history, nextId, 1, JsonResponse(200, updatedBuyer))
        ELSE IF failAt = "history"
        THEN HandlerOutcome(updated, history, nextId, 1, internalError)
        ELSE HandlerOutcome(updated, Append(history, entry), nextId, 2,
                            JsonResponse(200, updatedBuyer))

\* request bodies: the stored form again, one with another name, no status and two
\* tags, one without the optional fields, and one with a five-digit phone
PutBodies ==
    { FullBody,
      [FullBody EXCEPT !.fullName = Str(<<"Asha", Space, "Rao">>), !.status = Undefined,
                       !.tags = Arr(<<Str(<<"nri">>), Str(<<"vip">>)>>)],
      [FullBody EXCEPT !.email = Undefined, !.bhk = Undefined, !.budgetMin = Undefined,
                       !.budgetMax = Undefined, !.notes = Undefined, !.tags = Undefined],
      [FullBody EXCEPT !.phone = Str(<<"12345">>)] }

\* export const PUT = withRateLimit(rateLimiters.buyerUpdate)(... updateBuyer(req, params))
PUT ==
    \E headers \in RequestHeaders, buyerId \in TargetIds, body \in PutBodies,
       failAt \in FailurePoints \ {"create"} :
        /\ UpdatesSent < MaxPatches
        /\ RateLimitedRequest("PUT /api/buyers/[id]", "buyerUpdate", headers,
                              updateBuyer(buyerId, body, now, failAt))

\* one buyer was created in the first hour
InitUpdate ==
    /\ now = ApiStart
    /\ rateLimitStore = <<>>
    /\ admitted = <<>>
    /\ last = NoOp
    /\ callsPending = 0
    /\ callFrames = <<>>
    /\ callResults = <<>>
    /\ buyers = MapSet(<<>>, 1, CreatedRow(FullBody))
    /\ history = <<>>
    /\ nextId = 2
    /\ imp = ImpIdle
    /\ sent = <<>>
    /\ exchange = NoExchange

NextUpdate ==
    \/ PUT
    \/ PATCH

SpecUpdate == InitUpdate /\ [][NextUpdate]_vars

(***************************************************************************)
(* Scenario 5b: status requests for one buyer that run concurrently. Each  *)
(* await of updateBuyerStatus (status/route.ts lines 27, 37, 44) ends a    *)
(* step, so the steps of different requests interleave. heldBefore is the  *)
(* status the row held when prisma.buyer.update ran; the code does not     *)
(* read it.                                                                *)
(***************************************************************************)
MaxConcurrent == 2

ConcurrentBuyer == 1
ConcurrentStatuses == {Str(<<"Contacted">>), Str(<<"Qualified">>)}

InitConcurrent ==
    /\ now = ApiStart
    /\ rateLimitStore = <<>>
    /\ admitted = <<>>
    /\ last = NoOp
    /\ callsPending = MaxConcurrent
    /\ callFrames = <<>>
    /\ callResults = <<>>
    /\ buyers = MapSet(<<>>, ConcurrentBuyer, CreatedRow(FullBody))
    /\ history = <<>>
    /\ nextId = 2
    /\ imp = ImpIdle
    /\ sent = <<>>
    /\ exchange = NoExchange

\* lines 12-24: the request arrives and its body is parsed
StatusArrive ==
    /\ callsPending > 0
    /\ \E newStatus \in ConcurrentStatuses :
           callFrames' = MapSet(callFrames, MaxConcurrent - callsPending + 1,
                                [ pc |-> "findUnique", newStatus |-> newStatus,
                                  currentStatus |-> Undefined, heldBefore |-> Undefined,
                                  updatedStatus |-> Undefined ])
    /\ callsPending' = callsPending - 1
    /\ UNCHANGED <<limiterVars, callResults, storageVars, imp, apiVars>>

\* lines 27-30: const currentBuyer = await prisma.buyer.findUnique(...)
StatusFindUnique ==
    \E request \in DOMAIN callFrames :
        /\ callFrames[request].pc = "findUnique"
        /\ callFrames' = [callFrames EXCEPT
                             ![request].pc = "update",
                             ![request].currentStatus = buyers[ConcurrentBuyer].status]
        /\ UNCHANGED <<limiterVars, callsPending, callResults, storageVars, imp, apiVars>>

\* lines 37-43: const updatedBuyer = await prisma.buyer.update(...), then the comparison
StatusUpdate ==
    \E request \in DOMAIN callFrames :
        LET frame == callFrames[request] IN
        /\ frame.pc = "update"
        /\ buyers' = [buyers EXCEPT ![ConcurrentBuyer].status = frame.newStatus]
        /\ callFrames' = [callFrames EXCEPT
                             ![request].pc = IF frame.currentStatus # frame.newStatus
                                             THEN "history" ELSE "done",
                             ![request].heldBefore = buyers[ConcurrentBuyer].status,
                             ![request].updatedStatus = frame.newStatus]
        /\ UNCHANGED <<limiterVars, callsPending, callResults, history, nextId, imp, apiVars>>

\* lines 44-59: await prisma.buyerHistory.create(...)
StatusHistoryCreate ==
    \E request \in DOMAIN callFrames :
        LET frame == callFrames[request] IN
        /\ frame.pc = "history"
        /\ history' = Append(history,
                             [ buyerId |-> ConcurrentBuyer, changedBy |-> OwnerId,
                               diff |-> StatusDiff(frame.currentStatus, frame.updatedStatus, now) ])
        /\ callFrames' = [callFrames EXCEPT ![request].pc = "done"]
        /\ UNCHANGED <<limiterVars, callsPending, callResults, buyers, nextId, imp, apiVars>>

NextConcurrent ==
    \/ StatusArrive
    \/ StatusFindUnique
    \/ StatusUpdate
    \/ StatusHistoryCreate

SpecConcurrent == InitConcurrent /\ [][NextConcurrent]_vars

(***************************************************************************)
(* Scenario 6: creation with history, status changes and DELETE /api/buyers/[id] *)
(***************************************************************************)
MaxAudited == 1
MaxDeletes == 2

\* POST in the copy of app/api/buyers/route.ts that also writes history
createBuyerWithHistory(body, failAt) ==
    LET created == MapSet(buyers, nextId, CreatedRow(body))
        entry == [ buyerId |-> nextId, changedBy |-> OwnerId,
                   diff |-> [action |-> "CREATED", newValues |-> body] ]
    IN  IF ~SchemaAccepts(body)
        THEN HandlerOutcome(buyers, history, nextId, 0,
                            JsonResponse(400, [error |-> <<"zod", SchemaIssues(body)[1].path>>]))
        ELSE IF failAt = "create"
        THEN HandlerOutcome(buyers, history, nextId, 0, JsonResponse(400, [error |-> "prisma"]))
        ELSE IF failAt = "history"
        THEN HandlerOutcome(created, history, nextId + 1, 1,
                            JsonResponse(400, [error |-> "prisma"]))
        ELSE HandlerOutcome(created, Append(history, entry), nextId + 1, 2,
                            JsonResponse(201, CreatedRow(body) @@ [id |-> nextId]))

POSTWithHistory ==
    \E headers \in RequestHeaders, body \in PostBodies, failAt \in {"none", "create", "history"} :
        /\ SentTo("POST /api/buyers") < MaxAudited
        /\ DirectRequest("POST /api/buyers", headers, createBuyerWithHistory(body, failAt))

\* CONSTRAINT "BuyerHistory_buyerId_fkey" ... ON DELETE RESTRICT
OnDeleteBuyer == "RESTRICT"

\* prisma.buyer.delete under the foreign key of BuyerHistory: the tables it leaves, or
\* the error code P2003 when the database refuses
DeleteOutcome(buyerId) ==
    LET referring == {k \in 1..Len(history) : history[k].buyerId = buyerId}
        entriesOfOthers == SelectSeq(history, LAMBDA h : h.buyerId # buyerId)
    IN  IF referring # {} /\ OnDeleteBuyer = "RESTRICT" THEN [code |-> "P2003"]
        ELSE [code |-> "", buyers |-> MapDelete(buyers, buyerId), history |-> entriesOfOthers]

\* DELETE: what it leaves in the tables and what it returns
deleteBuyer(buyerId) ==
    IF buyerId \notin DOMAIN buyers
    THEN HandlerOutcome(buyers, history, nextId, 0,
                        JsonResponse(404, [error |-> "Buyer not found"]))
    ELSE IF DeleteOutcome(buyerId).code = "P2003"
    THEN HandlerOutcome(buyers, history, nextId, 0,
                        JsonResponse(500, [error |-> "Internal server error"]))
    ELSE HandlerOutcome(DeleteOutcome(buyerId).buyers, DeleteOutcome(buyerId).history, nextId, 1,
                        JsonResponse(200, [message |-> "Buyer deleted successfully"]))

\* export async function DELETE
DELETE ==
    \E headers \in RequestHeaders, buyerId \in TargetIds :
        /\ SentTo("DELETE /api/buyers/[id]") < MaxDeletes
        /\ DirectRequest("DELETE /api/buyers/[id]", headers, deleteBuyer(buyerId))

NextDelete ==
    \/ POSTWithHistory
    \/ PATCH
    \/ DELETE

SpecDelete == InitCreate /\ [][NextDelete]_vars

(***************************************************************************)
(* Scenario 7: getUserIdentifier applied to one request, whose x-user-id   *)
(* and x-forwarded-for headers are absent, empty or hold a value           *)
(***************************************************************************)
UserIdHeaders ==
    { Null, Str(<<>>), Str(<<"u1">>), Str(<<"user123">>), Str(<<"unknown">>),
      Str(<<"1.2.3.4">>), Str(<<"192.168.1.1">>), Str(<<"ip:", "1.2.3.4">>) }

ForwardedHeaders ==
    { Null, Str(<<>>), Str(<<"192.168.1.1">>),
      Str(<<"192.168.1.1", Comma, Space, "10.0.0.1">>), Str(<<Comma, "10.0.0.1">>),
      Str(<<Space, "1.2.3.4">>), Str(<<"user:", "u1">>), Str(<<"unknown">>),
      Str(<<"1.2.3.4">>) }

HeaderSamples == [userId : UserIdHeaders, forwarded : ForwardedHeaders]

\* a request that has arrived and has not been identified yet
Arrived(headers) == [headers |-> headers] @@ NoExchange

InitIdentify ==
    /\ now = ApiStart
    /\ rateLimitStore = <<>>
    /\ admitted = <<>>
    /\ last = NoOp
    /\ callsPending = 0
    /\ callFrames = <<>>
    /\ callResults = <<>>
    /\ buyers = <<>>
    /\ history = <<>>
    /\ nextId = 1
    /\ imp = ImpIdle
    /\ sent = <<>>
    /\ exchange \in {Arrived(h) : h \in HeaderSamples}

\* const identifier = getUserIdentifier(req), line 180
Identify ==
    /\ exchange.endpoint = "none"
    /\ exchange' = [exchange EXCEPT !.endpoint = "getUserIdentifier",
                                    !.identifier = getUserIdentifier(exchange.headers)]
    /\ UNCHANGED <<limiterVars, burstVars, storageVars, imp, sent>>

NextIdentify == Identify

SpecIdentify == InitIdentify /\ [][NextIdentify]_vars

(***************************************************************************)
(* Scenario 8: transformCSVRow applied to one row object, as the row loop  *)
(* of the import does (line 123). The rows are the valid sample row with   *)
(* some required or some optional columns left blank.                      *)
(***************************************************************************)
RequiredColumns == {RequiredOrder[i] : i \in 1..Len(RequiredOrder)}
OptionalColumns == {expectedHeaders[i] : i \in 1..ExpectedColumns} \ RequiredColumns

\* a blank cell is empty or holds white space only
BlankCells == {<<>>, <<Space>>}

ApartmentFields == [ValidFields EXCEPT ![5] = <<"Apartment">>]
BadEmailFields == [ValidFields EXCEPT ![2] = <<"not-an-email">>]
ShortPhoneFields == [ValidFields EXCEPT ![3] = <<"12345">>]

\* the row object of fields with the columns of blanks replaced by the cell blank
RowWithBlanks(fields, blanks, blank) ==
    RowOf([i \in 1..ExpectedColumns |->
              IF expectedHeaders[i] \in blanks THEN blank ELSE fields[i]])

\* the valid sample row with each other property type
PropertyTypeFields == {[ValidFields EXCEPT ![5] = <<pt>>] : pt \in PropertyType}

\* budget cells that are negative, not a number, or a number followed by letters
BadBudgetCells == {<<"-5">>, <<"invalid">>, <<"12abc">>}
BadBudgetFields ==
    {[ValidFields EXCEPT ![8] = cell] : cell \in BadBudgetCells}
        \cup {[ValidFields EXCEPT ![9] = cell] : cell \in BadBudgetCells}

RowSamples ==
    {RowWithBlanks(fields, blanks, blank) :
         fields \in {ValidFields, BadEmailFields, ShortPhoneFields},
         blanks \in SUBSET RequiredColumns, blank \in BlankCells}
    \cup {RowWithBlanks(fields, blanks, blank) :
              fields \in {ValidFields, ApartmentFields},
              blanks \in SUBSET OptionalColumns, blank \in BlankCells}
    \cup {RowWithBlanks(fields, blanks, blank) :
              fields \in PropertyTypeFields, blanks \in {{}, {"bhk"}}, blank \in BlankCells}
    \cup {RowOf(fields) : fields \in BadBudgetFields}

NoRowResult == [success |-> FALSE, message |-> <<"none">>]
RowArrived(row) == [row |-> row, result |-> NoRowResult] @@ ImpIdle

InitRow ==
    /\ now = 1700
    /\ rateLimitStore = <<>>
    /\ last = NoOp
    /\ admitted = <<>>
    /\ callsPending = 0
    /\ callFrames = <<>>
    /\ callResults = <<>>
    /\ buyers = <<>>
    /\ history = <<>>
    /\ nextId = 1
    /\ imp \in {RowArrived(row) : row \in RowSamples}
    /\ sent = <<>>
    /\ exchange = NoExchange

\* const transformedData = transformCSVRow(row), line 123
TransformRow ==
    /\ imp.pc = "idle"
    /\ imp' = [imp EXCEPT !.pc = "transformed", !.result = transformCSVRow(imp.row)]
    /\ UNCHANGED <<limiterVars, burstVars, storageVars, apiVars>>

NextRow == TransformRow

SpecRow == InitRow /\ [][NextRow]_vars

(***************************************************************************)
(* Scenario 9: one field written by the export's escapeCSVField            *)
(* (export/route.ts lines 204-210) and read back by parseCSVLine           *)
(***************************************************************************)
MaxFieldLen == 3

RECURSIVE DoubleQuotesFrom(_, _, _)
DoubleQuotesFrom(s, i, acc) ==
    IF i > Len(s) THEN acc
    ELSE DoubleQuotesFrom(s, i + 1,
             IF s[i] = Quote THEN acc \o <<Quote, Quote>> ELSE Append(acc, s[i]))
\* field.replace(/"/g, '""')
DoubleQuotes(s) == DoubleQuotesFrom(s, 1, <<>>)

escapeCSVFieldWithoutDoubling(field) ==
    IF SeqIncludes(field, Comma) \/ SeqIncludes(field, Quote) \/ SeqIncludes(field, Newline)
    THEN <<Quote>> \o field \o <<Quote>>
    ELSE field
\* escapeCSVField(field)
escapeCSVField(field) ==
    IF SeqIncludes(field, Comma) \/ SeqIncludes(field, Quote) \/ SeqIncludes(field, Newline)
    THEN <<Quote>> \o DoubleQuotes(field) \o <<Quote>>
    ELSE field

\* the characters of the sample fields; "a" stands for any other character
FieldSymbols == {Comma, Quote, Newline, Space, "a"}

\* the strings of at most MaxFieldLen characters
FieldSamples ==
    UNION {[1..n -> FieldSymbols] : n \in 0..MaxFieldLen}

NoColumns == <<"none">>
FieldArrived(field) == [field |-> field, escaped |-> <<>>, decoded |-> NoColumns] @@ ImpIdle

InitEscape ==
    /\ now = 1700
    /\ rateLimitStore = <<>>
    /\ last = NoOp
    /\ admitted = <<>>
    /\ callsPending = 0
    /\ callFrames = <<>>
    /\ callResults = <<>>
    /\ buyers = <<>>
    /\ history = <<>>
    /\ nextId = 1
    /\ imp \in {FieldArrived(field) : field \in FieldSamples}
    /\ sent = <<>>
    /\ exchange = NoExchange

\* escapeCSVField(...) in the export's row, lines 151-164
EscapeField ==
    /\ imp.pc = "idle"
    /\ imp' = [imp EXCEPT !.pc = "escaped", !.escaped = escapeCSVField(imp.field)]
    /\ UNCHANGED <<limiterVars, burstVars, storageVars, apiVars>>

\* const values = parseCSVLine(line) of the import, line 92
DecodeField ==
    /\ imp.pc = "escaped"
    /\ imp' = [imp EXCEPT !.pc = "decoded", !.decoded = parseCSVLine(imp.escaped)]
    /\ UNCHANGED <<limiterVars, burstVars, storageVars, apiVars>>

NextEscape == EscapeField \/ DecodeField

SpecEscape == InitEscape /\ [][NextEscape]_vars

(***************************************************************************)
(* Properties of the rate limiter                                          *)
(***************************************************************************)
BucketResets == {r.resetTime : r \in DOMAIN callResults}
AllowedIn(resetTime) ==
    BagCount(callResults, {r \in DOMAIN callResults : r.allowed /\ r.resetTime = resetTime})
DeniedIn(resetTime) ==
    BagCount(callResults, {r \in DOMAIN callResults : ~r.allowed /\ r.resetTime = resetTime})
BurstOver == callsPending = 0 /\ DOMAIN callFrames = {}

\* C1: of the checkLimit(id, 1) calls fired together by one identifier, at most
\* maxRequests return allowed=true in any one bucket, whatever the interleaving; when
\* all NumCalls calls fell in one bucket, exactly maxRequests are allowed and the
\* other NumCalls - maxRequests are denied.
C1_BurstNeverOvercounts ==
    /\ \A rt \in BucketResets : AllowedIn(rt) <= TEST_LIMIT.maxRequests
    /\ (BurstOver /\ Cardinality(BucketResets) = 1) =>
           \A rt \in BucketResets :
               /\ AllowedIn(rt) = TEST_LIMIT.maxRequests
               /\ DeniedIn(rt) = NumCalls - TEST_LIMIT.maxRequests

C1_Witness ==
    /\ BurstOver
    /\ BucketResets = {2000}
    /\ AllowedIn(2000) = 3
    /\ DeniedIn(2000) = NumCalls - 3

LastKey == KeyOf(last.identifier, WindowStart(last.at, Config(last.limiter)))

\* C4: starting from no stored count, checkLimit(id, n) is admitted iff the units
\* already admitted in the bucket plus n do not exceed maxRequests; an admitted call
\* adds n to the counter and returns remaining = maxRequests - new count; once the
\* admitted units equal maxRequests every call is denied.
C4_AdmittedIffUnitsFit ==
    last.op = "checkLimit" =>
        LET cfg == Config(last.limiter)
            units == last.admittedBefore + last.requestCount
        IN  /\ last.result.allowed <=> units <= cfg.maxRequests
            /\ last.result.allowed =>
                   /\ last.result.remaining = cfg.maxRequests - units
                   /\ CurrentCount(rateLimitStore, LastKey) = units
            /\ ~last.result.allowed =>
                   CurrentCount(rateLimitStore, LastKey) = last.admittedBefore
            /\ last.admittedBefore = cfg.maxRequests => ~last.result.allowed

C4_Witness ==
    /\ last.op = "checkLimit"
    /\ last.requestCount = 1
    /\ last.admittedBefore = 3
    /\ ~last.result.allowed
    /\ last.result.remaining = 0

\* C5 (as claimed): every denied checkLimit call, whatever its requestCount, reports
\* remaining = 0, the configured message and resetTime = bucket start + windowMs.
C5_DeniedReportsZero ==
    (last.op = "checkLimit" /\ ~last.result.allowed) =>
        LET cfg == Config(last.limiter)
        IN  /\ last.result.remaining = 0
            /\ last.result.message = cfg.message
            /\ last.result.resetTime = WindowStart(last.at, cfg) + cfg.windowMs

\* C5 (amended): every denied checkLimit call reports remaining =
\* max(0, maxRequests - units admitted so far), which is 0 when requestCount = 1,
\* the configured message and resetTime = bucket start + windowMs.
C5_DeniedReportsUnitsLeft ==
    (last.op = "checkLimit" /\ ~last.result.allowed) =>
        LET cfg == Config(last.limiter)
        IN  /\ last.result.remaining = Max(0, cfg.maxRequests - last.admittedBefore)
            /\ last.requestCount = 1 => last.result.remaining = 0
            /\ last.result.message = cfg.message
            /\ last.result.resetTime = (last.at - (last.at % cfg.windowMs)) + cfg.windowMs

C5_Witness ==
    /\ last.op = "checkLimit"
    /\ ~last.result.allowed
    /\ last.requestCount = 2
    /\ last.result.remaining = 1
    /\ last.at = 1999

\* C6: a denied checkLimit call leaves the whole store as it was.
C6_DeniedLeavesStore ==
    [][(last'.op = "checkLimit" /\ ~last'.result.allowed) => rateLimitStore' = rateLimitStore]_vars

C6_Witness ==
    /\ last.op = "checkLimit"
    /\ ~last.result.allowed
    /\ Cardinality(DOMAIN rateLimitStore) >= 2


(***************************************************************************)
(* Properties of the CSV import                                            *)
(***************************************************************************)
\* the sample lines by what the scan must make of them
BlankLines == {SpacesLine}
FailingLines == {ShortPhoneLine, ExtraColumnLine, TwoColumnLine, NoEmailLine}

HasFailingRow(file) == \E k \in 1..Len(file.dataLines) : file.dataLines[k] \in FailingLines
DataRowCount(file) == Cardinality({k \in 1..Len(file.dataLines) : file.dataLines[k] \notin BlankLines})

\* the row numbers the report must list: the position of each failing line among the
\* non-blank lines of the file, the header being line 1
RECURSIVE ExpectedErrorRows(_, _, _)
ExpectedErrorRows(dataLines, k, position) ==
    IF k > Len(dataLines) THEN <<>>
    ELSE IF dataLines[k] \in BlankLines THEN ExpectedErrorRows(dataLines, k + 1, position)
    ELSE IF dataLines[k] \in FailingLines
    THEN <<position + 1>> \o ExpectedErrorRows(dataLines, k + 1, position + 1)
    ELSE ExpectedErrorRows(dataLines, k + 1, position + 1)

\* rows of the two tables that the running import added
NewBuyerIds == {id \in DOMAIN buyers : id >= imp.firstId}
NewHistory == SelectSeq(history, LAMBDA h : h.buyerId >= imp.firstId)
EarlierRowsKept ==
    /\ \A id \in DOMAIN buyers \ NewBuyerIds : buyers[id] = EarlierBuyers[id]
    /\ SelectSeq(history, LAMBDA h : h.buyerId < imp.firstId)
           = (IF imp.firstId = 1 THEN <<>> ELSE EarlierHistory)
NothingWritten == NewBuyerIds = {} /\ NewHistory = <<>> /\ EarlierRowsKept

IsReport(response) == response.status = 200
Succeeded == imp.pc = "done" /\ IsReport(imp.response) /\ imp.response.success

\* C2: a file that passes the file and header checks and holds a row that fails the scan
\* is answered at once with success = false and insertedCount = 0, and no buyer
\* and no history entry is written, whatever the other rows are.
C2_FailingRowBlocksImport ==
    (imp.pc # "idle" /\ imp.file \in DataFiles /\ HasFailingRow(imp.file))
        => /\ imp.pc = "done"
           /\ IsReport(imp.response)
           /\ imp.response.success = FALSE
           /\ imp.response.insertedCount = 0
           /\ NothingWritten

C2_Witness ==
    /\ imp.pc = "done"
    /\ imp.file.dataLines = <<ValidLine, ShortPhoneLine, QuotedLine>>
    /\ IsReport(imp.response)
    /\ imp.response.success = FALSE
    /\ imp.response.validRows = 2
    /\ NothingWritten

\* C3: when the transaction was opened and did not commit, the answer is status 500 with
\* error 'Failed to import buyers', no buyer and no history entry of the batch remains,
\* and the transaction was attempted once.
C3_FailedCommitLeavesNothing ==
    (imp.pc = "done" /\ imp.attempts >= 1 /\ ~Succeeded)
        => /\ imp.response = ErrorResponse(500, "Failed to import buyers")
           /\ NothingWritten
           /\ imp.attempts = 1

C3_Witness ==
    /\ imp.pc = "done"
    /\ imp.response = ErrorResponse(500, "Failed to import buyers")
    /\ Len(imp.validData) = 2
    /\ Len(imp.writes) = 3
    /\ NothingWritten

\* C9: an import of N rows that all pass answers success = true with
\* totalRows = validRows = insertedCount = N and no errors, and leaves exactly N new
\* buyers and N new history entries, one per new buyer, each tagged IMPORTED and
\* holding the values submitted for that buyer.
C9_ImportRecordsSubmittedValues ==
    Succeeded =>
        LET N == DataRowCount(imp.file)
        IN  /\ imp.response.totalRows = N
            /\ imp.response.validRows = N
            /\ imp.response.insertedCount = N
            /\ imp.response.errors = <<>>
            /\ Cardinality(NewBuyerIds) = N
            /\ Len(NewHistory) = N
            /\ \A id \in NewBuyerIds :
                   \E k \in 1..Len(NewHistory) :
                       /\ NewHistory[k].buyerId = id
                       /\ NewHistory[k].diff.action = "IMPORTED"
                       /\ "newValues" \in DOMAIN NewHistory[k].diff
                       /\ \A j \in 1..Len(NewHistory) : NewHistory[j].buyerId = id => j = k

\* C10: the report lists one entry per failing row, in the order of the rows, also for
\* rows that come after a failing one; the row number of an entry is the position of its
\* line among the non-blank lines of the file, counting the header as 1.
C10_ErrorsListEveryFailingRow ==
    (imp.pc = "done" /\ imp.file \in DataFiles /\ IsReport(imp.response))
        => MapSeq(imp.response.errors, LAMBDA e : e.row)
               = ExpectedErrorRows(imp.file.dataLines, 1, 1)

C10_Witness ==
    /\ imp.pc = "done"
    /\ imp.file.dataLines = <<ShortPhoneLine, SpacesLine, ExtraColumnLine>>
    /\ IsReport(imp.response)
    /\ Len(imp.response.errors) = 2
    /\ imp.response.errors[1].row = 2
    /\ imp.response.errors[2].row = 3


(***************************************************************************)
(* Properties of the routes                                                *)
(***************************************************************************)
RateLimitHeaderNames == {"X-RateLimit-Limit", "X-RateLimit-Remaining", "X-RateLimit-Reset"}

\* C7: a request to the wrapped status route that the limiter denies is answered with
\* status 429, the handler is not invoked and the tables stay as they were; a request the
\* limiter admits invokes the handler once and its response carries X-RateLimit-Limit,
\* X-RateLimit-Remaining and X-RateLimit-Reset, with the values of the limiter's result.
C7_DeniedNeverReachesHandler ==
    [][last'.op = "checkLimit" =>
           /\ exchange'.limit = last'.result
           /\ ~last'.result.allowed =>
                  /\ exchange'.response.status = 429
                  /\ exchange'.invoked = 0
                  /\ exchange'.writes = 0
                  /\ UNCHANGED storageVars
           /\ last'.result.allowed =>
                  /\ exchange'.invoked = 1
                  /\ RateLimitHeaderNames \subseteq DOMAIN exchange'.response.headers
                  /\ exchange'.response.headers["X-RateLimit-Limit"]
                         = DecimalString(RATE_LIMITS.BUYER_UPDATE.maxRequests)
                  /\ exchange'.response.headers["X-RateLimit-Remaining"]
                         = DecimalString(last'.result.remaining)
                  /\ exchange'.response.headers["X-RateLimit-Reset"]
                         = DecimalString(last'.result.resetTime)]_vars

C7_Witness ==
    /\ exchange.endpoint = "PATCH /api/buyers/[id]/status"
    /\ last.op = "checkLimit"
    /\ last.countBefore = RATE_LIMITS.BUYER_UPDATE.maxRequests
    /\ exchange.response.status = 429
    /\ exchange.invoked = 0
    /\ Len(history) = 1

\* C8: a POST /api/buyers that is at least the 11th of its identity in the running hour
\* is answered with status 429 and creates no buyer.
C8_EleventhCreateRejected ==
    (exchange.endpoint = "POST /api/buyers"
         /\ exchange.ordinal > RATE_LIMITS.BUYER_CREATE.maxRequests)
        => exchange.response.status = 429 /\ exchange.writes = 0


(***************************************************************************)
(* Properties of the import's checks on the file                           *)
(***************************************************************************)
FileLevelErrors ==
    { "No file provided", "File size too large. Maximum 5MB allowed.",
      "Only CSV files are allowed", "CSV file is empty",
      "Maximum 200 rows allowed (excluding header)", "Missing required headers" }

\* C11: an upload that is absent, larger than 5MB, not named *.csv, empty, longer than
\* 200 data rows or short of a required header is answered with status 400 and one of the
\* file-level errors; no row of it is scanned, no transaction is opened and the tables
\* stay as they were.
C11_FileViolationEndsImport ==
    (imp.pc # "idle" /\ imp.file \in RejectedFiles)
        => /\ imp.pc = "done"
           /\ imp.response.status = 400
           /\ imp.response.error \in FileLevelErrors
           /\ imp.totalRows = 0
           /\ imp.validData = <<>>
           /\ imp.attempts = 0
           /\ NothingWritten

C11_Witness ==
    /\ imp.pc = "done"
    /\ imp.file.size > MaxFileSize
    /\ imp.file.dataLines = <<ValidLine>>
    /\ imp.response = ErrorResponse(400, "File size too large. Maximum 5MB allowed.")
    /\ NothingWritten


(***************************************************************************)
(* Properties of the history of updates                                    *)
(***************************************************************************)
TrackedFields == {fieldsToTrack[i] : i \in 1..Len(fieldsToTrack)}

\* a step in which the handler of PUT or of the status route ran
UpdateStep ==
    /\ last'.op = "checkLimit"
    /\ exchange'.endpoint \in {"PUT /api/buyers/[id]", "PATCH /api/buyers/[id]/status"}
    /\ exchange'.invoked = 1

\* the buyers whose row the step changed
TouchedIds == {id \in DOMAIN buyers : buyers'[id] # buyers[id]}

ExpectedChanges(before, after) ==
    [f \in {g \in TrackedFields : before[g] # after[g]} |->
        [old |-> before[f], new |-> after[f]]]

\* no entry when no row changed; else one new entry, for the changed buyer, whose change
\* map holds old and new of exactly the fields that differ
HistoryMatchesChange ==
    /\ TouchedIds = {} => history' = history
    /\ \A id \in TouchedIds :
           /\ Len(history') = Len(history) + 1
           /\ SubSeq(history', 1, Len(history)) = history
           /\ history'[Len(history')].buyerId = id
           /\ history'[Len(history')].diff.action \in {"UPDATED", "STATUS_UPDATED"}
           /\ history'[Len(history')].diff.changes = ExpectedChanges(buyers[id], buyers'[id])

C13_CreatedBuyerHasHistory ==
    (exchange.endpoint = "POST /api/buyers" /\ exchange.response.status = 201)
        => \E k \in 1..Len(history) :
               /\ history[k].buyerId = exchange.response.body.id
               /\ history[k].diff.action = "CREATED"
               /\ "newValues" \in DOMAIN history[k].diff

\* a step in which DELETE answered a request
DeleteStep == exchange'.endpoint = "DELETE /api/buyers/[id]" /\ sent' # sent

\* C14: a DELETE that names an existing buyer is answered 200 and removes the buyer and
\* every history entry of it, whether or not the buyer has history; no history entry
\* refers to a buyer that is not in the table.
C14_DeleteRemovesBuyerAndHistory ==
    [][/\ (DeleteStep /\ exchange'.response.status # 404) =>
              /\ exchange'.response.status = 200
              /\ \E id \in DOMAIN buyers :
                     /\ DOMAIN buyers' = DOMAIN buyers \ {id}
                     /\ \A k \in 1..Len(history') : history'[k].buyerId # id
       /\ \A k \in 1..Len(history') : history'[k].buyerId \in DOMAIN buyers']_vars

(***************************************************************************)
(* Properties of getStatus, reset and the separation of identifiers        *)
(***************************************************************************)
\* the count the store holds for an identifier in the bucket of the test limiter that
\* contains the clock reading t
StoredCount(store, t, identifier) ==
    LET k == <<identifier, t - (t % TEST_LIMIT.windowMs)>>
    IN  IF k \in DOMAIN store THEN store[k].count ELSE 0

\* what checkLimit and getStatus would return for an identifier in a given state
AnswersFor(store, t, identifier) ==
    [ status |-> StatusResult(store, t, identifier, TEST_LIMIT),
      checks |-> [n \in RequestCounts |->
                     CheckResult(t, CurrentCount(store, KeyOf(identifier, WindowStart(t, TEST_LIMIT))),
                                 n, TEST_LIMIT)] ]

\* C15: getStatus(id) returns allowed = (count < maxRequests) and remaining =
\* max(0, maxRequests - count) for the count stored in the current bucket, leaves the
\* store as it was, would return the same again, and leaves what checkLimit would
\* return for every identifier as it was.
C15_StatusReportsWithoutCounting ==
    [][last'.op = "getStatus" =>
           LET count == StoredCount(rateLimitStore, now, last'.identifier)
           IN  /\ last'.result.allowed = (count < TEST_LIMIT.maxRequests)
               /\ last'.result.remaining = Max(0, TEST_LIMIT.maxRequests - count)
               /\ rateLimitStore' = rateLimitStore
               /\ StatusResult(rateLimitStore', now', last'.identifier, TEST_LIMIT) = last'.result
               /\ \A id \in Identifiers :
                      AnswersFor(rateLimitStore', now', id) = AnswersFor(rateLimitStore, now, id)]_vars

C15_Witness ==
    /\ last.op = "getStatus"
    /\ last.countBefore = 2
    /\ last.result.allowed
    /\ last.result.remaining = 1
    /\ StoredCount(rateLimitStore, now, last.identifier) = 2

\* C16: reset(id) deletes the entry of id in the current bucket and no other entry; a
\* getStatus(id) that follows at once returns allowed with remaining = maxRequests, a
\* checkLimit(id) that follows at once is admitted with remaining = maxRequests - 1.
C16_ResetClearsOnlyThatCounter ==
    [][/\ last'.op = "reset" =>
              LET key == <<last'.identifier, now - (now % TEST_LIMIT.windowMs)>>
              IN  /\ DOMAIN rateLimitStore' = DOMAIN rateLimitStore \ {key}
                  /\ \A k \in DOMAIN rateLimitStore' : rateLimitStore'[k] = rateLimitStore[k]
       /\ (last.op = "reset" /\ last'.identifier = last.identifier /\ last'.at = last.at) =>
              /\ last'.op = "getStatus" =>
                     /\ last'.result.allowed
                     /\ last'.result.remaining = TEST_LIMIT.maxRequests
              /\ (last'.op = "checkLimit" /\ last'.requestCount = 1) =>
                     /\ last'.result.allowed
                     /\ last'.result.remaining = TEST_LIMIT.maxRequests - 1]_vars

C16_Witness ==
    /\ last.op = "reset"
    /\ last.countBefore = TEST_LIMIT.maxRequests
    /\ StoredCount(rateLimitStore, now, last.identifier) = 0
    /\ \E id \in Identifiers \ {last.identifier} : StoredCount(rateLimitStore, now, id) > 0

\* C17: a checkLimit, getStatus or reset for one identifier leaves every entry of the
\* other identifiers in the store, and what checkLimit and getStatus would return for
\* them, as they were.
C17_IdentifiersAreSeparate ==
    [][last'.op \in {"checkLimit", "getStatus", "reset"} =>
           \A id \in Identifiers \ {last'.identifier} :
               /\ \A t \in LimiterInstants :
                      StoredCount(rateLimitStore', t, id) = StoredCount(rateLimitStore, t, id)
               /\ AnswersFor(rateLimitStore', now', id) = AnswersFor(rateLimitStore, now, id)]_vars

C17_Witness ==
    /\ last.op = "checkLimit"
    /\ last.identifier = "user2"
    /\ last.result.allowed
    /\ last.result.remaining = TEST_LIMIT.maxRequests - 1
    /\ StoredCount(rateLimitStore, now, "user1") = TEST_LIMIT.maxRequests


(***************************************************************************)
(* Properties of getUserIdentifier                                         *)
(***************************************************************************)
Identified == exchange.endpoint = "getUserIdentifier"

\* the part of a header value before its first comma
FirstEntry(s) ==
    LET commas == {i \in 1..Len(s) : s[i] = Comma}
    IN  IF commas = {} THEN s
        ELSE SubSeq(s, 1, (CHOOSE i \in commas : \A j \in commas : i <= j) - 1)

Present(header) == header # Null
PresentNonEmpty(header) == header # Null /\ header.s # <<>>

\* the identifiers built from a user id, and those built from an address, over the samples
UserDerived == {"user:" \o Text(h.userId.s) : h \in {x \in HeaderSamples : PresentNonEmpty(x.userId)}}
AddressDerived ==
    {"ip:" \o Text(FirstEntry(h.forwarded.s)) : h \in {x \in HeaderSamples : PresentNonEmpty(x.forwarded)}}
        \cup {"ip:unknown"}

\* C18: getUserIdentifier returns 'user:' + x-user-id when the header is present,
\* otherwise 'ip:' + the first entry of x-forwarded-for when that header is present,
\* otherwise 'ip:unknown'; no identifier built from a user id equals one built from
\* an address.
C18_IdentifierOfPresentHeader ==
    /\ Identified =>
           exchange.identifier =
               IF Present(exchange.headers.userId)
               THEN "user:" \o Text(exchange.headers.userId.s)
               ELSE IF Present(exchange.headers.forwarded)
                    THEN "ip:" \o Text(FirstEntry(exchange.headers.forwarded.s))
                    ELSE "ip:unknown"
    /\ UserDerived \cap AddressDerived = {}

\* C18 (amended): the same with "present" read as "present and not empty": an empty
\* x-user-id falls through to the address, an empty x-forwarded-for to 'ip:unknown'.
C18_IdentifierOfNonEmptyHeader ==
    /\ Identified =>
           /\ exchange.identifier =
                  IF PresentNonEmpty(exchange.headers.userId)
                  THEN "user:" \o Text(exchange.headers.userId.s)
                  ELSE IF PresentNonEmpty(exchange.headers.forwarded)
                       THEN "ip:" \o Text(FirstEntry(exchange.headers.forwarded.s))
                       ELSE "ip:unknown"
           /\ exchange.identifier \in UserDerived <=> PresentNonEmpty(exchange.headers.userId)
    /\ UserDerived \cap AddressDerived = {}

C18_Witness ==
    /\ Identified
    /\ exchange.headers.userId = Str(<<>>)
    /\ exchange.headers.forwarded = Str(<<"192.168.1.1", Comma, Space, "10.0.0.1">>)
    /\ exchange.identifier = "ip:192.168.1.1"


(***************************************************************************)
(* Properties of the validation of one CSV row                             *)
(***************************************************************************)
Transformed == imp.pc = "transformed"

BlankColumns(row) == {f \in DOMAIN row : row[f] \in BlankCells}

\* the required columns in the order the claim gives
ClaimedOrder == <<"fullName", "phone", "city", "propertyType", "purpose", "timeline", "source">>

\* C19: when one or more required columns of a row are blank, transformCSVRow fails
\* with the single error '<field> is required', where <field> is blank and no column
\* before it in the order fullName, phone, city, propertyType, purpose, timeline,
\* source is blank, whatever else is wrong with the row.
C19_FirstBlankRequiredIsReported ==
    (Transformed /\ BlankColumns(imp.row) \cap RequiredColumns # {}) =>
        /\ ~imp.result.success
        /\ \E i \in 1..Len(ClaimedOrder) :
               /\ imp.result.message = <<"required", ClaimedOrder[i]>>
               /\ ClaimedOrder[i] \in BlankColumns(imp.row)
               /\ \A j \in 1..(i - 1) : ClaimedOrder[j] \notin BlankColumns(imp.row)

C19_Witness ==
    /\ Transformed
    /\ BlankColumns(imp.row) = {"city", "source"}
    /\ imp.row.phone = <<"12345">>
    /\ imp.result = [success |-> FALSE, message |-> <<"required", "city">>]

\* every cell of the row outside the columns in except is blank or holds the value of
\* the valid sample row (any property type)
ValidBut(row, except) ==
    \A f \in DOMAIN row \ except :
        \/ row[f] \in BlankCells
        \/ row[f] = RowOf(ValidFields)[f]
        \/ f = "propertyType" /\ \E pt \in PropertyType : row[f] = <<pt>>

\* the value the claim gives for an optional column left blank
BlankDefault(f) ==
    CASE f = "tags" -> Arr(<<>>)
      [] f = "status" -> Str(<<"New">>)
      [] OTHER -> Null

\* C20: a row whose required columns are valid and whose optional columns are valid
\* or blank (bhk blank only when the property type does not require it) passes
\* transformCSVRow, and every blank optional column yields its default: null for
\* email, bhk, budgetMin, budgetMax and notes, [] for tags, 'New' for status.
C20_BlankOptionalsPass ==
    (/\ Transformed
     /\ ValidBut(imp.row, {})
     /\ BlankColumns(imp.row) \subseteq OptionalColumns
     /\ imp.row.propertyType = <<"Apartment">> => "bhk" \notin BlankColumns(imp.row)) =>
        /\ imp.result.success
        /\ \A f \in BlankColumns(imp.row) : imp.result.data[f] = BlankDefault(f)


\* the property types for which bhk is required
NeedsBhk == {"Apartment", "Villa"}

\* C21: for a record that is otherwise valid and has no bhk, the create path (a body
\* without bhk) and the import path (a row whose bhk cell is blank) both reject
\* Apartment and Villa with an error on field bhk and both accept Plot, Office and
\* Retail.
C21_BhkRequiredOnlyForDwellings ==
    /\ \A pt \in PropertyType :
           LET issues == SchemaIssues([FullBody EXCEPT !.propertyType = Str(<<pt>>),
                                                       !.bhk = Undefined])
           IN  IF pt \in NeedsBhk
               THEN issues # <<>> /\ \A i \in 1..Len(issues) : issues[i].path = "bhk"
               ELSE issues = <<>>
    /\ (Transformed /\ ValidBut(imp.row, {}) /\ BlankColumns(imp.row) = {"bhk"}) =>
           IF \E pt \in NeedsBhk : imp.row.propertyType = <<pt>>
           THEN ~imp.result.success /\ imp.result.message[2] = "bhk"
           ELSE imp.result.success

\* a budget as the spec wants it stored: absent or a non-negative integer
NonNegativeBudget(v) == v \in {Null, Undefined} \/ (v.t = "num" /\ v.n >= 0)

\* C22: a row whose budgetMin or budgetMax cell is negative or not a number fails
\* transformCSVRow; the budgets of every row that passes are absent or non-negative
\* integers.
C22_BadBudgetFailsRow ==
    /\ (/\ Transformed
        /\ ValidBut(imp.row, {"budgetMin", "budgetMax"})
        /\ imp.row.budgetMin \in BadBudgetCells \/ imp.row.budgetMax \in BadBudgetCells) =>
           ~imp.result.success
    /\ (Transformed /\ imp.result.success) =>
           /\ NonNegativeBudget(imp.result.data.budgetMin)
           /\ NonNegativeBudget(imp.result.data.budgetMax)


(***************************************************************************)
(* Properties of the export's escaping                                     *)
(***************************************************************************)
HasSpecial(field) == \E i \in 1..Len(field) : field[i] \in {Comma, Quote, Newline}
QuoteCount(field) == Cardinality({i \in 1..Len(field) : field[i] = Quote})

\* the string spelt by a sequence of symbols
Spelt(s) == Text(s)

\* values[k] || '' as the import reads column k of a decoded line
ColumnOr(values, k) == IF k <= Len(values) THEN values[k] ELSE <<>>

Untrimmed(field) ==
    field # <<>> /\ (IsWhitespace(field[1]) \/ IsWhitespace(field[Len(field)]))

BucketsOver(store, t, identifier) ==
    \A k \in DOMAIN store : k[1] = identifier => store[k].resetTime <= t

C25_SweepKeepsCurrentBuckets ==
    [][last'.op = "sweep" =>
           /\ DOMAIN rateLimitStore' \subseteq DOMAIN rateLimitStore
           /\ \A k \in DOMAIN rateLimitStore' : rateLimitStore'[k] = rateLimitStore[k]
           /\ \A k \in DOMAIN rateLimitStore \ DOMAIN rateLimitStore' :
                  rateLimitStore[k].resetTime < now
           /\ \A k \in DOMAIN rateLimitStore :
                  k[2] = now - (now % TEST_LIMIT.windowMs) => k \in DOMAIN rateLimitStore'
           /\ \A id \in Identifiers :
                  AnswersFor(rateLimitStore', now', id) = AnswersFor(rateLimitStore, now, id)]_vars

\* the sweep has run in bucket 2000: the entry of bucket 1000 is gone, the used-up entry
\* of bucket 2000 is still there
C25_Witness ==
    /\ last.op = "sweep"
    /\ now = 2600
    /\ DOMAIN rateLimitStore = {<<WindowIdentifier, 2000>>}
    /\ rateLimitStore[<<WindowIdentifier, 2000>>].count = TEST_LIMIT.maxRequests
    /\ AdmittedUnits(<<WindowIdentifier, 2000>>) = TEST_LIMIT.maxRequests


(***************************************************************************)
(* Properties of the layout of the imported file                           *)
(***************************************************************************)
\* the number of comma-separated fields the sample rows are written with
FieldsWritten(line) ==
    CASE line = ValidLine -> 14
      [] line = ExtraColumnLine -> 15
      [] line = TwoColumnLine -> 2
      [] line = TwelveColumnLine -> 12

\* the import of a file of such rows under the usual header has been answered
ColumnsCase ==
    /\ imp.pc = "done"
    /\ imp.file \in LayoutFiles
    /\ imp.file.header = HeaderLine
    /\ \A k \in 1..Len(imp.file.dataLines) : imp.file.dataLines[k] # NewlineLine
    /\ IsReport(imp.response)

\* the messages the report holds for the k-th data row, which is row k + 1
ErrorsOfRow(k) ==
    {imp.response.errors[e].message :
         e \in {x \in 1..Len(imp.response.errors) : imp.response.errors[x].row = k + 1}}

WithoutNewlines(file) ==
    [file EXCEPT !.dataLines =
        [k \in 1..Len(file.dataLines) |->
            IF file.dataLines[k] = NewlineLine THEN ValidLine ELSE file.dataLines[k]]]

\* C27: the import of a file in which a quoted field holds a newline reports the same
\* number of rows, and row errors for the same rows, as the import of the file with
\* that newline replaced by another character.
C27_QuotedNewlineStaysInField ==
    (/\ imp.pc = "done"
     /\ imp.file \in LayoutFiles
     /\ imp.file.header = HeaderLine
     /\ IsReport(imp.response)) =>
        LET twin == Scan(FileText(WithoutNewlines(imp.file)))
        IN  /\ imp.response.totalRows = twin.csvRows
            /\ MapSeq(imp.response.errors, LAMBDA e : e.row)
                   = MapSeq(twin.errors, LAMBDA e : e.row)


\* the import of a file whose header names fullName and notes in each other's place,
\* with rows written in the order of that header, has been answered
ReorderedCase ==
    /\ imp.pc = "done"
    /\ imp.file \in LayoutFiles
    /\ imp.file.header = SwappedHeader

\* C30: a file whose header holds the 14 names in another order is accepted, and each
\* value of a row is stored under the field its header column names: the value written
\* in the fullName column is the stored fullName, the one in the notes column the
\* stored notes.
C30_ValuesFollowHeaderNames ==
    ReorderedCase =>
        /\ imp.response.status # 400
        /\ Succeeded =>
               /\ Cardinality(NewBuyerIds) = Len(imp.file.dataLines)
               /\ \A id \in NewBuyerIds :
                      /\ buyers[id].fullName = Str(<<"Asha">>)
                      /\ buyers[id].notes = Str(<<"note">>)

\* C30 (amended): such a file passes the header check, and each value of a row is
\* stored under the field of its position in the fixed column order: the value written
\* in the first column, which the header calls notes, is the stored fullName, and the
\* value of the twelfth column, which the header calls fullName, the stored notes.
C30_ValuesFollowPositions ==
    ReorderedCase =>
        /\ imp.response.status # 400
        /\ Succeeded =>
               /\ Cardinality(NewBuyerIds) = Len(imp.file.dataLines)
               /\ \A id \in NewBuyerIds :
                      /\ buyers[id].fullName = Str(<<"note">>)
                      /\ buyers[id].notes = Str(<<"Asha">>)
                      /\ buyers[id].phone = Str(<<"9876543210">>)

C30_Witness ==
    /\ ReorderedCase
    /\ Succeeded
    /\ imp.file.dataLines = <<SwappedLine>>
    /\ imp.response.insertedCount = 1
    /\ \E id \in NewBuyerIds : buyers[id].fullName = Str(<<"note">>)


(***************************************************************************)
(* Properties of the two production limiters                               *)
(***************************************************************************)
\* what the given limiter would return for an identifier in a given state
LimiterAnswers(limiter, store, t, identifier) ==
    [ status |-> StatusResult(store, t, identifier, Config(limiter)),
      check |-> CheckResult(t, CurrentCount(store, KeyOf(identifier, WindowStart(t, Config(limiter)))),
                            1, Config(limiter)) ]

\* C28: a checkLimit of one of rateLimiters.buyerCreate and rateLimiters.buyerUpdate
\* leaves the allowed result and the remaining count that checkLimit and getStatus of
\* the other one would return for the same identifier as they were.
C28_LimitersCountApart ==
    [][last'.op = "checkLimit" =>
           \A other \in ProductionLimiters \ {last'.limiter} :
               LimiterAnswers(other, rateLimitStore', now', last'.identifier)
                   = LimiterAnswers(other, rateLimitStore, now, last'.identifier)]_vars


(***************************************************************************)
(* Properties of history entries under concurrent updates                  *)
(***************************************************************************)
\* C29: the old value of every STATUS_UPDATED entry is the status the buyer held when
\* the write of its request ran, and the entries form a chain: the old value of the
\* first is the status the buyer was created with, the old value of each later one is
\* the new value of the entry before it.
C29_HistoryEntriesChain ==
    /\ \A request \in DOMAIN callFrames :
           LET frame == callFrames[request]
           IN  (frame.pc = "done" /\ frame.currentStatus # frame.updatedStatus)
                   => frame.currentStatus = frame.heldBefore
    /\ \A k \in 1..Len(history) :
           history[k].diff.changes.status.old =
               IF k = 1 THEN CreatedRow(FullBody).status
               ELSE history[k - 1].diff.changes.status.new


====
